---- MODULE Spec2Model ----
(***************************************************************************)
(* GATHODE growth-curve engine: the parameter store, the memoisation       *)
(* cache and the active-child bookkeeping of platereader.plate.Plate and   *)
(* platereader.replicate.Replicate.                                        *)
(*                                                                         *)
(* Python values are held in uniform shapes so that they can be compared:  *)
(*   - an optional scalar is a sequence: None is << >>, the value x is     *)
(*     <<x>>; False/True are 0/1; smoothingS is held in hundredths;        *)
(*   - a memoised value is a record [t, v]: t names its kind ("None",      *)
(*     "array", or the numerical routine that produced it) and v holds     *)
(*     the numbers (the array itself, or the routine's arguments).         *)
(* Wells and replicate groups are named <<"w", i>> and <<"g", j>> with     *)
(* the plate's 0-based indices i and j.                                    *)
(***************************************************************************)
EXTENDS Integers, Sequences, FiniteSets, TLC

\* The number of calls made to the plate in one run.
MaxSteps == 2

None == << >>
Some(x) == <<x>>

----------------------------------------------------------------------------
(* Parameter names and the invalidation table                              *)

PurePlateParameters ==
    {"smoothingK", "smoothingS", "hdCorrectionLinear", "hdCorrectionQuadratic",
     "hdCorrectionCubic", "slidingWindowSize", "lagAtLogOdEquals", "logOdCutoff"}

InheritableParameters ==
    {"maxGrowthLowerTimeCutoff", "maxGrowthUpperTimeCutoff",
     "allowMaxGrowthrateAtLowerCutoff", "allowGrowthyieldSlopeNStderrAwayFromZero"}

PlateParameters == PurePlateParameters \cup InheritableParameters

\* A name that is in no parameter dictionary.
UnknownParameter == "noSuchParameter"

ParameterNames == PlateParameters \cup {UnknownParameter}

MemoKeys ==
    {"rawOd", "rawOdVar", "od", "odVar", "derivative", "smoothedOd",
     "smoothedOdDerivative", "logOd", "logOdSmoothed", "expFitsMu", "expFitsOd0Mu"}

KeepAll == MemoKeys
KeepRaw == {"rawOd", "rawOdVar"}
KeepButFits == MemoKeys \ {"expFitsMu", "expFitsOd0Mu"}
KeepButSmoothed == MemoKeys \ {"smoothedOd", "smoothedOdDerivative", "logOdSmoothed"}

memoisedDontClearKeys == PlateParameters \cup {"backgroundIndex"}

memoisedDontClear(par) ==
    CASE par \in InheritableParameters -> KeepAll
      [] par \in {"lagAtLogOdEquals", "logOdCutoff"} -> KeepAll
      [] par \in {"backgroundIndex", "hdCorrectionCubic", "hdCorrectionLinear",
                  "hdCorrectionQuadratic"} -> KeepRaw
      [] par = "slidingWindowSize" -> KeepButFits
      [] par \in {"smoothingK", "smoothingS"} -> KeepButSmoothed

----------------------------------------------------------------------------
(* The plate the model runs on: five wells measured at four time points.   *)
(* Wells 0 and 1 are the blank, wells 2..4 one sample; well 4 has no data. *)
(* Readings are even, which keeps the means and the sample variances over  *)
(* the one or two wells of a group that have data integral.                *)

time == <<0, 1, 2, 3>>

plateRawOd ==
    (0 :> <<2, 2, 4, 4>>) @@ (1 :> <<2, 6, 4, 8>>) @@
    (2 :> <<4, 8, 16, 32>>) @@ (3 :> <<8, 12, 20, 28>>) @@ (4 :> None)

sampleIds == (0 :> "BLANK") @@ (1 :> "BLANK") @@ (2 :> "s") @@ (3 :> "s") @@ (4 :> "s")

replicateGroupChildren == (0 :> <<0, 1>>) @@ (1 :> <<2, 3, 4>>)

WellIdx == DOMAIN plateRawOd
GroupIdx == DOMAIN replicateGroupChildren

W(i) == <<"w", i>>
G(j) == <<"g", j>>
ThePlate == <<"p", 0>>

Wells == {W(i) : i \in WellIdx}
Groups == {G(j) : j \in GroupIdx}
Entities == Wells \cup Groups

isReplicateGroup(e) == e[1] = "g"

childWellIndices(e) ==
    IF isReplicateGroup(e) THEN replicateGroupChildren[e[2]] ELSE <<e[2]>>

childWells(e) == {W(childWellIndices(e)[k]) : k \in 1..Len(childWellIndices(e))}

replicateGroupParent(w) ==
    CHOOSE g \in Groups : \E k \in 1..Len(childWellIndices(g)) : childWellIndices(g)[k] = w[2]

----------------------------------------------------------------------------
(* State                                                                   *)

VARIABLES
    plateParameters,        \* Plate._inheritableParameters
    inheritableParameters,  \* Replicate._inheritableParameters, per entity
    activeWellIndices,      \* Replicate._activeWellIndices, per entity
    backgroundIndex,        \* Replicate._backgroundIndex, per entity
    memoised,               \* Replicate._memoised, per entity
    modified,               \* Plate.modified
    plateBackgroundGroupIndices,  \* Plate._backgroundGroupIndices
    plateBackgroundWellIndices,   \* Plate._backgroundWellIndices
    last,                   \* the last call made and how it ended
    steps,                  \* number of calls made so far
    plate,                  \* a Plate whose wells are regrouped by setWellMetadata
    statuses,               \* a StatusMessage that collects statuses
    growth,                 \* a replicate group whose growth is evaluated
    cls,                    \* a single-well ClsReplicate whose viability is evaluated
    well                    \* a single well whose growth rate and yield are extracted

vars == <<plateParameters, inheritableParameters, activeWellIndices, backgroundIndex,
          memoised, modified, plateBackgroundGroupIndices, plateBackgroundWellIndices,
          last, steps, plate, statuses, growth, cls, well>>

\* The state of the plate with the fixed grouping.
fixedGroupingVars ==
    <<plateParameters, inheritableParameters, activeWellIndices, backgroundIndex,
      memoised, modified, plateBackgroundGroupIndices, plateBackgroundWellIndices>>

----------------------------------------------------------------------------
(* Memoised values                                                         *)

Absent == [t |-> "absent", v |-> << >>]
NoneVal == [t |-> "None", v |-> << >>]
Arr(a) == [t |-> "array", v |-> a]
NoneFit == [t |-> "NoneFit", v |-> << >>]

EmptyMemo == [k \in MemoKeys |-> Absent]

Present(m, e, k) == m[e][k] # Absent
Put(m, e, k, val) == [m EXCEPT ![e][k] = val]

\* How a computation ended: the cache it leaves, "ok" or the exception, and what it returned.
Ret(m, val) == [m |-> m, err |-> "ok", val |-> val]
Raise(m, exc) == [m |-> m, err |-> exc, val |-> NoneVal]

\* A scalar or array argument of a numerical routine, with its length in front.
Enc(a) == <<Len(a)>> \o a

----------------------------------------------------------------------------
(* Parameter resolution                                                    *)

getDefaultParameter(par) == plateParameters[par]

explicitOrDefault(g, par) ==
    IF inheritableParameters[g][par] # None THEN inheritableParameters[g][par]
    ELSE getDefaultParameter(par)

\* A resolution that never asks the parent group.
getParameterIgnoringParent(e, par) ==
    IF par \in PurePlateParameters THEN getDefaultParameter(par)
    ELSE IF inheritableParameters[e][par] # None THEN inheritableParameters[e][par]
    ELSE getDefaultParameter(par)

\* A resolution that reads a plate-wide parameter from the replicate, which holds none.
getParameterOfReplicate(e, par) ==
    IF par \in PurePlateParameters THEN None
    ELSE IF inheritableParameters[e][par] # None THEN inheritableParameters[e][par]
    ELSE IF ~isReplicateGroup(e) /\ explicitOrDefault(replicateGroupParent(e), par) # None
         THEN explicitOrDefault(replicateGroupParent(e), par)
    ELSE getDefaultParameter(par)

getParameter(e, par) ==
    IF par \in PurePlateParameters THEN getDefaultParameter(par)
    ELSE IF inheritableParameters[e][par] # None THEN inheritableParameters[e][par]
    ELSE IF ~isReplicateGroup(e) /\ explicitOrDefault(replicateGroupParent(e), par) # None
         THEN explicitOrDefault(replicateGroupParent(e), par)
    ELSE getDefaultParameter(par)

----------------------------------------------------------------------------
(* Raw optical density                                                     *)

\* The accessor q called on entity e with the caches m; the accessors call one another
\* through it.
RECURSIVE Call(_, _, _)

hasRawOd(e, idx) == plateRawOd[childWellIndices(e)[idx + 1]] # None

\* "ok", or the exception the first offending index raises.
RECURSIVE checkFrom(_, _, _)
checkFrom(e, lst, k) ==
    IF k > Len(lst) THEN "ok"
    ELSE IF lst[k] < 0 \/ lst[k] >= Len(childWellIndices(e)) THEN "IndexError"
    ELSE IF ~hasRawOd(e, lst[k]) THEN "RuntimeError"
    ELSE IF \E j \in 1..(k - 1) : lst[j] = lst[k] THEN "RuntimeError"
    ELSE checkFrom(e, lst, k + 1)

checkActiveWellIndices(e, lst) == checkFrom(e, lst, 1)

defaultActiveWellIndices(e) ==
    SelectSeq([k \in 1..Len(childWellIndices(e)) |-> k - 1], LAMBDA idx : hasRawOd(e, idx))

RECURSIVE SumAt(_, _, _)
SumAt(rows, k, i) == IF k = 0 THEN 0 ELSE rows[k][i] + SumAt(rows, k - 1, i)

RECURSIVE SqDevAt(_, _, _, _)
SqDevAt(rows, k, i, mu) ==
    IF k = 0 THEN 0
    ELSE (rows[k][i] - mu) * (rows[k][i] - mu) + SqDevAt(rows, k - 1, i, mu)

MeanRows(rows) == [i \in 1..Len(time) |-> SumAt(rows, Len(rows), i) \div Len(rows)]

VarRows(rows) ==
    [i \in 1..Len(time) |->
        SqDevAt(rows, Len(rows), i, MeanRows(rows)[i]) \div (Len(rows) - 1)]

calculateRawOd(m, e) ==
    LET m1 == Put(Put(m, e, "rawOd", NoneVal), e, "rawOdVar", NoneVal)
        act == activeWellIndices[e]
        chk == checkActiveWellIndices(e, act)
        rows == [k \in 1..Len(act) |-> plateRawOd[childWellIndices(e)[act[k] + 1]]]
        m2 == IF Len(act) > 0 THEN Put(m1, e, "rawOd", Arr(MeanRows(rows))) ELSE m1
        m3 == IF Len(act) > 1 THEN Put(m2, e, "rawOdVar", Arr(VarRows(rows))) ELSE m2
    IN  IF chk # "ok" THEN Raise(m1, chk) ELSE Ret(m3, NoneVal)

rawOd(m, e) ==
    IF Present(m, e, "rawOd") THEN Ret(m, m[e]["rawOd"])
    ELSE LET c == calculateRawOd(m, e)
         IN  IF c.err # "ok" THEN c ELSE Ret(c.m, c.m[e]["rawOd"])

rawOdVar(m, e) ==
    IF Present(m, e, "rawOdVar") THEN Ret(m, m[e]["rawOdVar"])
    ELSE LET c == calculateRawOd(m, e)
         IN  IF c.err # "ok" THEN c ELSE Ret(c.m, c.m[e]["rawOdVar"])

----------------------------------------------------------------------------
(* Corrected optical density                                               *)

hdPoly(a1, a2, a3, d) == a1 * d + a2 * d * d + a3 * d * d * d

hdPolyVar(a1, a2, a3, d, dvar) ==
    (a1 + 2 * a2 * d + 3 * a3 * d * d) * (a1 + 2 * a2 * d + 3 * a3 * d * d) * dvar

calculateOd(m, e) ==
    LET m1 == Put(Put(m, e, "od", NoneVal), e, "odVar", NoneVal)
        r == Call(m1, e, "rawOd")
        a1 == getParameter(e, "hdCorrectionLinear")
        a2 == getParameter(e, "hdCorrectionQuadratic")
        a3 == getParameter(e, "hdCorrectionCubic")
        bg == G(backgroundIndex[e][1])
        b == Call(r.m, bg, "rawOd")
        rawdiff == [i \in 1..Len(time) |-> r.val.v[i] - b.val.v[i]]
        odv == [i \in 1..Len(time) |-> hdPoly(a1[1], a2[1], a3[1], rawdiff[i])]
        m2 == Put(b.m, e, "od", Arr(odv))
        rv == Call(m2, e, "rawOdVar")
        bv == Call(rv.m, bg, "rawOdVar")
        odvar == [i \in 1..Len(time) |->
                     hdPolyVar(a1[1], a2[1], a3[1], rawdiff[i], rv.val.v[i] + bv.val.v[i])]
    IN  IF r.err # "ok" THEN r
        ELSE IF r.val = NoneVal THEN Ret(r.m, NoneVal)
        ELSE IF backgroundIndex[e] = None THEN Ret(r.m, NoneVal)
        ELSE IF a1 = None \/ a2 = None \/ a3 = None THEN Ret(r.m, NoneVal)
        ELSE IF b.err # "ok" THEN b
        ELSE IF b.val = NoneVal THEN Raise(b.m, "TypeError")
        ELSE IF rv.err # "ok" THEN rv
        ELSE IF bv.err # "ok" THEN bv
        ELSE IF rv.val # NoneVal /\ bv.val # NoneVal
             THEN Ret(Put(bv.m, e, "odVar", Arr(odvar)), NoneVal)
        ELSE Ret(bv.m, NoneVal)

od(m, e) ==
    IF Present(m, e, "od") THEN Ret(m, m[e]["od"])
    ELSE LET c == calculateOd(m, e)
         IN  IF c.err # "ok" THEN c ELSE Ret(c.m, c.m[e]["od"])

odVar(m, e) ==
    IF Present(m, e, "odVar") THEN Ret(m, m[e]["odVar"])
    ELSE LET c == calculateOd(m, e)
         IN  IF c.err # "ok" THEN c ELSE Ret(c.m, c.m[e]["odVar"])

----------------------------------------------------------------------------
(* Derivative, smoothing and logarithm                                     *)

Diff(a) == [i \in 1..(Len(a) - 1) |-> (a[i + 1] - a[i]) \div (time[i + 1] - time[i])]

derivative(m, e) ==
    IF Present(m, e, "derivative") THEN Ret(m, m[e]["derivative"])
    ELSE LET m1 == Put(m, e, "derivative", NoneVal)
             o == Call(m1, e, "od")
             d == Arr(Diff(o.val.v))
         IN  IF o.err # "ok" THEN o
             ELSE IF o.val = NoneVal THEN Ret(o.m, NoneVal)
             ELSE Ret(Put(o.m, e, "derivative", d), d)

\* UnivariateSpline(x, y, k, s) refuses a degree outside 1..5 and needs more than k points.
splineRaises(n, k) == k = None \/ k[1] < 1 \/ k[1] > 5 \/ n <= k[1]

Spline(kind, y, k, s) == [t |-> kind, v |-> Enc(y) \o Enc(k) \o Enc(s)]

smoothedOd(m, e) ==
    IF Present(m, e, "smoothedOd") THEN Ret(m, m[e]["smoothedOd"])
    ELSE LET o == Call(m, e, "od")
             m1 == Put(o.m, e, "smoothedOd", NoneVal)
             k == getParameter(e, "smoothingK")
             f == Spline("spline", o.val.v, k, getParameter(e, "smoothingS"))
         IN  IF o.err # "ok" THEN o
             ELSE IF o.val = NoneVal THEN Ret(o.m, NoneVal)
             ELSE IF splineRaises(Len(time), k) THEN Raise(m1, "SplineError")
             ELSE Ret(Put(m1, e, "smoothedOd", f), f)

smoothedOdDerivative(m, e) ==
    IF Present(m, e, "smoothedOdDerivative") THEN Ret(m, m[e]["smoothedOdDerivative"])
    ELSE LET m1 == Put(m, e, "smoothedOdDerivative", NoneVal)
             sm == Call(m1, e, "smoothedOd")
             d == [t |-> "diff(spline)", v |-> sm.val.v]
         IN  IF sm.err # "ok" THEN sm
             ELSE IF sm.val = NoneVal THEN Ret(sm.m, NoneVal)
             ELSE Ret(Put(sm.m, e, "smoothedOdDerivative", d), d)

\* log(od) where od >= 1e-35, nan elsewhere; a nan is held as 0, which no argument of log is.
LogArgs(a) == [i \in 1..Len(a) |-> IF a[i] >= 1 THEN a[i] ELSE 0]

logOd(m, e) ==
    IF Present(m, e, "logOd") THEN Ret(m, m[e]["logOd"])
    ELSE LET m1 == Put(m, e, "logOd", NoneVal)
             o == Call(m1, e, "od")
             l == [t |-> "log", v |-> LogArgs(o.val.v)]
         IN  IF o.err # "ok" THEN o
             ELSE IF o.val = NoneVal THEN Ret(o.m, NoneVal)
             ELSE Ret(Put(o.m, e, "logOd", l), l)

logOdSmoothed(m, e) ==
    IF Present(m, e, "logOdSmoothed") THEN Ret(m, m[e]["logOdSmoothed"])
    ELSE LET m1 == Put(m, e, "logOdSmoothed", NoneVal)
             lo == Call(m1, e, "logOd")
             k == getParameter(e, "smoothingK")
             nonnan == SelectSeq(lo.val.v, LAMBDA x : x # 0)
             f == Spline("spline(log)", lo.val.v, k, getParameter(e, "smoothingS"))
         IN  IF lo.err # "ok" THEN Ret(lo.m, NoneVal)
             ELSE IF lo.val = NoneVal THEN Ret(lo.m, NoneVal)
             ELSE IF splineRaises(Len(nonnan), k) THEN Ret(lo.m, NoneVal)
             ELSE Ret(Put(lo.m, e, "logOdSmoothed", f), f)

----------------------------------------------------------------------------
(* Local exponential fits                                                  *)

\* The local indices in lst that name no child: activeChildWells() raises on them.
indexable(e, lst) == \A k \in 1..Len(lst) : lst[k] >= 0 /\ lst[k] < Len(childWellIndices(e))

activeChildWells(e) ==
    [k \in 1..Len(activeWellIndices[e]) |->
        W(childWellIndices(e)[activeWellIndices[e][k] + 1])]

\* "ok", or the exception that the sliding window raises before any fit.
fitWindowCheck(w) ==
    IF w = None THEN "RuntimeError"
    ELSE IF w[1] < 3 THEN "RuntimeError"
    ELSE IF Len(time) - w[1] < 0 THEN "ValueError"
    ELSE "ok"

fitKind(fitOd0) == IF fitOd0 THEN "expfit(od0,mu)" ELSE "expfit(mu)"

meanFitKind(fitOd0) == IF fitOd0 THEN "mean(expfit(od0,mu))" ELSE "mean(expfit(mu))"

localODexpFitWell(m, e, fitOd0) ==
    LET o == Call(m, e, "od")
        w == getParameter(e, "slidingWindowSize")
    IN  IF o.err # "ok" THEN o
        ELSE IF o.val = NoneVal THEN Ret(o.m, NoneFit)
        ELSE IF fitWindowCheck(w) # "ok" THEN Raise(o.m, fitWindowCheck(w))
        ELSE Ret(o.m, [t |-> fitKind(fitOd0), v |-> Enc(o.val.v) \o Enc(w)])

\* The children's fits, one after the other; acc gathers their results.
RECURSIVE fitChildren(_, _, _, _)
fitChildren(m, children, fitOd0, acc) ==
    IF children = << >> THEN Ret(m, [t |-> meanFitKind(fitOd0), v |-> acc])
    ELSE LET c == localODexpFitWell(m, Head(children), fitOd0)
         IN  IF c.err # "ok" THEN c
             ELSE fitChildren(c.m, Tail(children), fitOd0, acc \o Enc(c.val.v))

localODexpFit(m, e, fitOd0) ==
    IF ~isReplicateGroup(e) THEN localODexpFitWell(m, e, fitOd0)
    ELSE LET o == Call(m, e, "od")
             w == getParameter(e, "slidingWindowSize")
         IN  IF o.err # "ok" THEN o
             ELSE IF o.val = NoneVal THEN Ret(o.m, NoneFit)
             ELSE IF fitWindowCheck(w) # "ok" THEN Raise(o.m, fitWindowCheck(w))
             ELSE IF ~indexable(e, activeWellIndices[e]) THEN Raise(o.m, "IndexError")
             ELSE fitChildren(o.m, activeChildWells(e), fitOd0, << >>)

expFitsOd0Mu(m, e) ==
    IF Present(m, e, "expFitsOd0Mu") THEN Ret(m, m[e]["expFitsOd0Mu"])
    ELSE LET c == localODexpFit(m, e, TRUE)
         IN  IF c.err # "ok" THEN c ELSE Ret(Put(c.m, e, "expFitsOd0Mu", c.val), c.val)

expFitsMu(m, e) ==
    IF Present(m, e, "expFitsMu") THEN Ret(m, m[e]["expFitsMu"])
    ELSE LET c == localODexpFit(m, e, FALSE)
         IN  IF c.err # "ok" THEN c ELSE Ret(Put(c.m, e, "expFitsMu", c.val), c.val)

----------------------------------------------------------------------------
(* Maximal growth rate.  The selection among the fitted rates is a pure    *)
(* function of what the call reads; the result is held as that reading.    *)

growthArgs(e) ==
    Enc(getParameter(e, "lagAtLogOdEquals"))
    \o Enc(getParameter(e, "allowMaxGrowthrateAtLowerCutoff"))
    \o Enc(getParameter(e, "logOdCutoff"))
    \o Enc(getParameter(e, "maxGrowthLowerTimeCutoff"))
    \o Enc(getParameter(e, "maxGrowthUpperTimeCutoff"))

maxGrowthrateExpfit(m, e) ==
    LET c == Call(m, e, "expFitsOd0Mu")
        w == getParameter(e, "slidingWindowSize")
        lo == Call(c.m, e, "logOd")
        res == [t |-> "maxGrowthrate(expfit)",
                v |-> Enc(c.val.v) \o Enc(w) \o Enc(lo.val.v) \o growthArgs(e)]
    IN  IF c.err # "ok" THEN c
        ELSE IF w = None THEN Raise(c.m, "TypeError")
        ELSE IF lo.err # "ok" THEN lo
        ELSE Ret(lo.m, res)

maxGrowthrateNonlogsmoothed(m, e) ==
    LET sm == Call(m, e, "smoothedOd")
        sd == IF sm.val = NoneVal THEN sm ELSE Call(sm.m, e, "smoothedOdDerivative")
        lo == Call(sd.m, e, "logOd")
        res == [t |-> "maxGrowthrate(nonlogsmoothed)",
                v |-> Enc(sm.val.v) \o Enc(sd.val.v) \o Enc(lo.val.v) \o growthArgs(e)]
    IN  IF sm.err # "ok" THEN sm
        ELSE IF sd.err # "ok" THEN sd
        ELSE IF lo.err # "ok" THEN lo
        ELSE Ret(lo.m, res)

maxGrowthrateWell(m, e, method) ==
    IF method = "expfit" THEN maxGrowthrateExpfit(m, e) ELSE maxGrowthrateNonlogsmoothed(m, e)

RECURSIVE growthChildren(_, _, _, _)
growthChildren(m, children, method, acc) ==
    IF children = << >> THEN Ret(m, [t |-> "mean(maxGrowthrate)", v |-> acc])
    ELSE LET c == maxGrowthrateWell(m, Head(children), method)
         IN  IF c.err # "ok" THEN c
             ELSE growthChildren(c.m, Tail(children), method, acc \o Enc(c.val.v))

maxGrowthrateBy(m, e, method) ==
    IF ~isReplicateGroup(e) THEN maxGrowthrateWell(m, e, method)
    ELSE IF ~indexable(e, activeWellIndices[e]) THEN Raise(m, "IndexError")
    ELSE growthChildren(m, activeChildWells(e), method, << >>)

maxGrowthrate(m, e) == maxGrowthrateBy(m, e, "expfit")

maxGrowthrateFromLogOdDerivative(m, e) == maxGrowthrateBy(m, e, "nonlogsmoothed")

Accessors == MemoKeys \cup {"maxGrowthrate", "maxGrowthrateFromLogOdDerivative"}

Call(m, e, q) ==
    CASE q = "rawOd" -> rawOd(m, e)
      [] q = "rawOdVar" -> rawOdVar(m, e)
      [] q = "od" -> od(m, e)
      [] q = "odVar" -> odVar(m, e)
      [] q = "derivative" -> derivative(m, e)
      [] q = "smoothedOd" -> smoothedOd(m, e)
      [] q = "smoothedOdDerivative" -> smoothedOdDerivative(m, e)
      [] q = "logOd" -> logOd(m, e)
      [] q = "logOdSmoothed" -> logOdSmoothed(m, e)
      [] q = "expFitsMu" -> expFitsMu(m, e)
      [] q = "expFitsOd0Mu" -> expFitsOd0Mu(m, e)
      [] q = "maxGrowthrate" -> maxGrowthrate(m, e)
      [] q = "maxGrowthrateFromLogOdDerivative" -> maxGrowthrateFromLogOdDerivative(m, e)

----------------------------------------------------------------------------
(* Invalidation                                                            *)

\* A clearing that drops every entry whatever the parameter.
clearMemoisedEverything(mem, par) == EmptyMemo

clearMemoised(mem, par) ==
    IF par \notin memoisedDontClearKeys THEN EmptyMemo
    ELSE [k \in MemoKeys |-> IF k \in memoisedDontClear(par) THEN mem[k] ELSE Absent]

\* The entities one notification reaches: the replicate, a group's children, a well's parent.
\* A notification that also reaches the siblings of a well.
notifiedWithSiblings(e) ==
    IF isReplicateGroup(e) THEN {e} \cup childWells(e)
    ELSE {replicateGroupParent(e)} \cup childWells(replicateGroupParent(e))

notified(e) ==
    {e} \cup (IF isReplicateGroup(e) THEN childWells(e) ELSE {replicateGroupParent(e)})

\* Plate._replicateChanged: the replicates whose background is group g are notified.
\* A plate that tells nobody about a changed background.
replicateChangedNobody(g) == {}

replicateChanged(g) ==
    UNION {notified(d) : d \in {x \in Entities : backgroundIndex[x] = Some(g[2])}}

parametersUpdated(m, e, par) ==
    LET dependents == IF par = "activewells" THEN replicateChanged(e) ELSE {}
    IN  [x \in Entities |->
            IF x \in dependents THEN clearMemoised(m[x], "backgroundRawOd")
            ELSE IF x \in notified(e) THEN clearMemoised(m[x], par)
            ELSE m[x]]

\* Plate._setupBackgroundIndices: the groups that are some replicate's background, and
\* the wells of these groups.
setupBackgroundGroupIndices ==
    {backgroundIndex[x][1] : x \in {y \in Entities : backgroundIndex[y] # None}}

setupBackgroundWellIndices ==
    UNION {{w[2] : w \in childWells(G(j))} : j \in setupBackgroundGroupIndices}

\* The two lists are set up when first asked for and held from then on.
backgroundReplicateGroupIndices ==
    IF plateBackgroundGroupIndices = None THEN setupBackgroundGroupIndices
    ELSE plateBackgroundGroupIndices[1]

backgroundWellIndices ==
    IF plateBackgroundWellIndices = None THEN setupBackgroundWellIndices
    ELSE plateBackgroundWellIndices[1]

nonBackground(e) ==
    IF isReplicateGroup(e) THEN e[2] \notin backgroundReplicateGroupIndices
    ELSE e[2] \notin backgroundWellIndices

plateParametersUpdated(m, par) ==
    [x \in Entities |-> IF nonBackground(x) THEN clearMemoised(m[x], par) ELSE m[x]]

----------------------------------------------------------------------------
(* Inputs of the calls                                                     *)

ValueInputs == {None, Some(3)}

IndexInputs == {0, 1, 2, 3}

ActiveListInputs ==
    {<< >>, <<0>>, <<1>>, <<0, 1>>, <<1, 0>>, <<0, 0>>, <<2>>, <<0, 3>>}

BackgroundInputs == {None} \cup {Some(j) : j \in GroupIdx}

----------------------------------------------------------------------------
(* Construction                                                            *)

\* Plate.__init__ from arrays: the default parameters.
arrayParameters ==
    [par \in PlateParameters |->
        CASE par = "allowMaxGrowthrateAtLowerCutoff" -> Some(0)
          [] par = "allowGrowthyieldSlopeNStderrAwayFromZero" -> Some(1)
          [] par = "lagAtLogOdEquals" -> Some(-5)
          [] par = "slidingWindowSize" -> Some(10)
          [] par = "smoothingK" -> Some(5)
          [] par = "smoothingS" -> Some(1)
          [] OTHER -> None]

\* Plate._deserialise: the parameters are those of the file, here a plate saved with
\* the correction coefficients (1, 0, 0), a window of 3 points and a linear spline.
gatParameters ==
    [par \in PlateParameters |->
        CASE par \in {"hdCorrectionLinear", "smoothingK"} -> Some(1)
          [] par \in {"hdCorrectionQuadratic", "hdCorrectionCubic"} -> Some(0)
          [] par = "slidingWindowSize" -> Some(3)
          [] OTHER -> arrayParameters[par]]

sampleIdOf(e) == sampleIds[childWellIndices(e)[1]]

\* Plate._setBackgroundForAllReplicates: the blank's group, for all but the blank itself.
guessedBackgroundIndex(e) ==
    IF sampleIdOf(e) = "BLANK" THEN None
    ELSE Some(CHOOSE j \in GroupIdx : sampleIdOf(G(j)) = "BLANK")

NoCall == [op |-> "construct", ent |-> ThePlate, par |-> "", arg |-> << >>,
           err |-> "ok", res |-> NoneVal]

Init ==
    /\ plateParameters \in {arrayParameters, gatParameters}
    /\ inheritableParameters = [e \in Entities |-> [par \in InheritableParameters |-> None]]
    /\ activeWellIndices = [e \in Entities |-> defaultActiveWellIndices(e)]
    /\ backgroundIndex = [e \in Entities |-> guessedBackgroundIndex(e)]
    /\ memoised = [e \in Entities |-> EmptyMemo]
    /\ modified = FALSE
    /\ plateBackgroundGroupIndices = None
    /\ plateBackgroundWellIndices = None
    /\ last = NoCall
    /\ steps = 0
    /\ plate = None
    /\ statuses = None
    /\ growth = None
    /\ cls = None
    /\ well = None

----------------------------------------------------------------------------
(* Calls                                                                   *)

Called(op, e, par, arg, err, res) ==
    /\ last' = [op |-> op, ent |-> e, par |-> par, arg |-> arg, err |-> err, res |-> res]
    /\ steps' = steps + 1
    /\ UNCHANGED <<plate, statuses, growth, cls, well>>

\* Plate._setDefaultParameter
setDefaultParameterOutcome(par) == IF par \notin PlateParameters THEN "RuntimeError" ELSE "ok"

SetDefaultParameter(par, val) ==
    /\ steps < MaxSteps
    /\ Called("setDefaultParameter", ThePlate, par, val, setDefaultParameterOutcome(par), NoneVal)
    /\ IF setDefaultParameterOutcome(par) # "ok"
       THEN UNCHANGED <<plateParameters, memoised, modified,
                        plateBackgroundGroupIndices, plateBackgroundWellIndices>>
       ELSE /\ plateParameters' = [plateParameters EXCEPT ![par] = val]
            /\ plateBackgroundGroupIndices' = Some(backgroundReplicateGroupIndices)
            /\ plateBackgroundWellIndices' = Some(backgroundWellIndices)
            /\ memoised' = plateParametersUpdated(memoised, par)
            /\ modified' = TRUE
    /\ UNCHANGED <<inheritableParameters, activeWellIndices, backgroundIndex>>

\* Replicate._setExplicitParameter
\* A setter that takes any name the plate knows.
setExplicitParameterLax(par) == IF par \in PlateParameters THEN "ok" ELSE "RuntimeError"

setExplicitParameterOutcome(par) ==
    IF par \in PurePlateParameters THEN "RuntimeError"
    ELSE IF par \notin InheritableParameters THEN "RuntimeError"
    ELSE "ok"

SetExplicitParameter(e, par, val) ==
    /\ steps < MaxSteps
    /\ Called("setExplicitParameter", e, par, val, setExplicitParameterOutcome(par), NoneVal)
    /\ IF setExplicitParameterOutcome(par) # "ok"
       THEN UNCHANGED <<inheritableParameters, memoised, modified>>
       ELSE /\ inheritableParameters' = [inheritableParameters EXCEPT ![e][par] = val]
            /\ memoised' = parametersUpdated(memoised, e, par)
            /\ modified' = TRUE
    /\ UNCHANGED <<plateParameters, activeWellIndices, backgroundIndex,
                   plateBackgroundGroupIndices, plateBackgroundWellIndices>>

\* Replicate.setActiveChildWellIndices
setActiveOutcome(e, lst) ==
    IF ~isReplicateGroup(e) THEN "RuntimeError" ELSE checkActiveWellIndices(e, lst)

SetActiveChildWellIndices(e, lst) ==
    /\ steps < MaxSteps
    /\ Called("setActiveChildWellIndices", e, "", lst, setActiveOutcome(e, lst), NoneVal)
    /\ IF setActiveOutcome(e, lst) # "ok"
       THEN UNCHANGED <<activeWellIndices, memoised, modified>>
       ELSE /\ activeWellIndices' = [activeWellIndices EXCEPT ![e] = lst]
            /\ memoised' = parametersUpdated(memoised, e, "activewells")
            /\ modified' = TRUE
    /\ UNCHANGED <<plateParameters, inheritableParameters, backgroundIndex,
                   plateBackgroundGroupIndices, plateBackgroundWellIndices>>

\* list.remove: without the first occurrence of x
RECURSIVE Remove(_, _)
Remove(lst, x) ==
    IF lst = << >> THEN << >>
    ELSE IF Head(lst) = x THEN Tail(lst)
    ELSE <<Head(lst)>> \o Remove(Tail(lst), x)

RECURSIVE Insert(_, _)
Insert(lst, x) ==
    IF lst = << >> THEN <<x>>
    ELSE IF x <= Head(lst) THEN <<x>> \o lst
    ELSE <<Head(lst)>> \o Insert(Tail(lst), x)

RECURSIVE sorted(_)
sorted(lst) == IF lst = << >> THEN << >> ELSE Insert(sorted(Tail(lst)), Head(lst))

InList(lst, x) == \E k \in 1..Len(lst) : lst[k] = x

\* Replicate.activateChildWellIndex: the list the replicate holds is changed in place,
\* then handed (sorted into a new list when an index was appended) to
\* setActiveChildWellIndices.
activateInPlace(lst, index, value) ==
    IF value /\ ~InList(lst, index) THEN Append(lst, index)
    ELSE IF ~value /\ InList(lst, index) THEN Remove(lst, index)
    ELSE lst

activateArgument(lst, index, value) ==
    IF value /\ ~InList(lst, index) THEN sorted(Append(lst, index))
    ELSE activateInPlace(lst, index, value)

ActivateChildWellIndex(e, index, value) ==
    LET held == activateInPlace(activeWellIndices[e], index, value)
        given == activateArgument(activeWellIndices[e], index, value)
    IN  /\ steps < MaxSteps
        /\ Called("activateChildWellIndex", e, "", <<index, IF value THEN 1 ELSE 0>>,
                  setActiveOutcome(e, given), NoneVal)
        /\ IF setActiveOutcome(e, given) # "ok"
           THEN /\ activeWellIndices' = [activeWellIndices EXCEPT ![e] = held]
                /\ UNCHANGED <<memoised, modified>>
           ELSE /\ activeWellIndices' = [activeWellIndices EXCEPT ![e] = given]
                /\ memoised' = parametersUpdated(memoised, e, "activewells")
                /\ modified' = TRUE
        /\ UNCHANGED <<plateParameters, inheritableParameters, backgroundIndex,
                       plateBackgroundGroupIndices, plateBackgroundWellIndices>>

\* Replicate._setBackgroundIndex
SetBackgroundIndex(e, idx) ==
    /\ steps < MaxSteps
    /\ Called("setBackgroundIndex", e, "", idx, "ok", NoneVal)
    /\ backgroundIndex' = [backgroundIndex EXCEPT ![e] = idx]
    /\ memoised' = parametersUpdated(memoised, e, "backgroundIndex")
    /\ modified' = TRUE
    /\ UNCHANGED <<plateParameters, inheritableParameters, activeWellIndices,
                   plateBackgroundGroupIndices, plateBackgroundWellIndices>>

\* A read accessor of Replicate.
Read(e, q) ==
    /\ steps < MaxSteps
    /\ Called(q, e, "", << >>, Call(memoised, e, q).err, Call(memoised, e, q).val)
    /\ memoised' = Call(memoised, e, q).m
    /\ UNCHANGED <<plateParameters, inheritableParameters, activeWellIndices, backgroundIndex,
                   modified, plateBackgroundGroupIndices, plateBackgroundWellIndices>>

Next ==
    \/ \E par \in ParameterNames, val \in ValueInputs : SetDefaultParameter(par, val)
    \/ \E e \in Entities, par \in ParameterNames, val \in ValueInputs :
           SetExplicitParameter(e, par, val)
    \/ \E e \in Entities, lst \in ActiveListInputs : SetActiveChildWellIndices(e, lst)
    \/ \E e \in Entities, index \in IndexInputs, value \in BOOLEAN :
           ActivateChildWellIndex(e, index, value)
    \/ \E e \in Entities, idx \in BackgroundInputs : SetBackgroundIndex(e, idx)
    \/ \E e \in Entities, q \in Accessors : Read(e, q)

Spec == Init /\ [][Next]_vars

----------------------------------------------------------------------------
(* Properties                                                              *)

NoMemo == [e \in Entities |-> EmptyMemo]

\* What entry k of entity e holds after it is computed from nothing but the current raw
\* data, parameters, active child sets and backgrounds.
freshEntry(e, k) == Call(NoMemo, e, k).m[e][k]

\* C1: every entry present in any entity's memoised cache equals the value a fresh
\* computation from the current raw data, resolved parameters, active child set and
\* background gives, whatever calls were made before, failed ones included.
C1_CacheCoherence ==
    \A e \in Entities : \A k \in MemoKeys :
        Present(memoised, e, k) => memoised[e][k] = freshEntry(e, k)

\* C2: for every inheritable parameter, getParameter on a well returns the well's
\* explicit value if one is set, otherwise its parent group's explicit value if one is
\* set, otherwise the plate default; on a group it returns the group's explicit value if
\* set, otherwise the plate default.
C2_ParameterResolution ==
    \A par \in InheritableParameters :
        /\ \A w \in Wells :
               getParameter(w, par) =
                   IF inheritableParameters[w][par] # None THEN inheritableParameters[w][par]
                   ELSE IF inheritableParameters[replicateGroupParent(w)][par] # None
                        THEN inheritableParameters[replicateGroupParent(w)][par]
                   ELSE plateParameters[par]
        /\ \A g \in Groups :
               getParameter(g, par) =
                   IF inheritableParameters[g][par] # None THEN inheritableParameters[g][par]
                   ELSE plateParameters[par]

\* A well without a value of its own resolves a parameter through its parent group, whose
\* value differs from the plate default.
C2_Witness ==
    /\ last.op = "setExplicitParameter"
    /\ last.err = "ok"
    /\ \E w \in Wells : \E par \in InheritableParameters :
           /\ inheritableParameters[w][par] = None
           /\ inheritableParameters[replicateGroupParent(w)][par] # None
           /\ inheritableParameters[replicateGroupParent(w)][par] # plateParameters[par]
           /\ getParameter(w, par) = inheritableParameters[replicateGroupParent(w)][par]

\* C3: setting a pure-plate or unknown parameter on a well or group, or an unknown one on
\* the plate, fails with an error, and leaves every explicit value at every level, every
\* memoised entry and the plate's modified flag as they were.
C3_RejectedSetChangesNothing ==
    [][(\/ /\ last'.op = "setExplicitParameter"
           /\ last'.par \in PurePlateParameters \cup {UnknownParameter}
        \/ /\ last'.op = "setDefaultParameter"
           /\ last'.par = UnknownParameter)
       => /\ last'.err = "RuntimeError"
          /\ UNCHANGED <<plateParameters, inheritableParameters, memoised, modified>>]_vars

\* A set was rejected on a plate that held memoised entries and had been modified before.
C3_Witness ==
    /\ last.op \in {"setExplicitParameter", "setDefaultParameter"}
    /\ last.par \in PurePlateParameters \cup {UnknownParameter}
    /\ last.err = "RuntimeError"
    /\ \E e \in Entities : \E k \in MemoKeys : Present(memoised, e, k)

\* What a cache keeps when it is cleared for parameter par according to the table.
keptFor(mem, par) == [k \in MemoKeys |-> IF k \in memoisedDontClear(par) THEN mem[k] ELSE Absent]

ActiveChange == {"setActiveChildWellIndices", "activateChildWellIndex"}

\* The caches one invalidation raised on e concerns: e with its children, or e with its parent.
reachOf(e) ==
    IF isReplicateGroup(e) THEN {e} \cup childWells(e) ELSE {e, replicateGroupParent(e)}

\* The replicates whose background is group g, and the caches their notification concerns.
dependentsOf(g) == {x \in Entities : backgroundIndex[x] = Some(g[2])}
dependentsReach(g) == UNION {reachOf(d) : d \in dependentsOf(g)}

\* An active-child change on last'.ent succeeded: the caches it concerns are empty.
ActiveChangeEmptiesCaches ==
    (last'.op \in ActiveChange /\ last'.err = "ok")
    => \A x \in reachOf(last'.ent) : memoised'[x] = EmptyMemo

\* C4: after a plate-level set of a parameter of the exemption table every well and
\* every group retains exactly the memoised entries the parameter's exempt set lists,
\* values unchanged, and has lost all others; an invalidation under a name that is not
\* in the table ('activewells') empties the notified entity's cache.
C4_PlateSetClearsEveryEntity ==
    [][/\ (last'.op = "setDefaultParameter" /\ last'.err = "ok")
          => \A e \in Entities : memoised'[e] = keptFor(memoised[e], last'.par)
       /\ ActiveChangeEmptiesCaches]_vars

\* C4, amended: the plate-level set clears, per the table, the wells and groups that the
\* plate does not list as background; the wells and groups it lists as background keep
\* every entry.
C4_PlateSetClearsNonBackground ==
    [][/\ (last'.op = "setDefaultParameter" /\ last'.err = "ok")
          => /\ \A w \in Wells :
                    memoised'[w] = IF w[2] \in plateBackgroundWellIndices'[1] THEN memoised[w]
                                   ELSE keptFor(memoised[w], last'.par)
             /\ \A g \in Groups :
                    memoised'[g] = IF g[2] \in plateBackgroundGroupIndices'[1] THEN memoised[g]
                                   ELSE keptFor(memoised[g], last'.par)
       /\ ActiveChangeEmptiesCaches]_vars

\* A coefficient of the correction was set on the plate while a well that the plate
\* lists as background held an OD entry: the well still holds it.
C4_Witness ==
    /\ last.op = "setDefaultParameter"
    /\ last.err = "ok"
    /\ last.par = "hdCorrectionLinear"
    /\ \E w \in Wells :
           /\ w[2] \in plateBackgroundWellIndices[1]
           /\ Present(memoised, w, "od")

\* C5: an invalidation raised on a well clears, per the table, only that well's cache
\* and its parent group's; one raised on a group clears only that group's cache and
\* those of all its child wells; apart from the dependents of a changed background no
\* other entity loses or changes a memoised entry.
C5_InvalidationReach ==
    [][/\ (last'.op = "setExplicitParameter" /\ last'.err = "ok")
          => \A x \in Entities :
                 memoised'[x] = IF x \in reachOf(last'.ent)
                                THEN keptFor(memoised[x], last'.par) ELSE memoised[x]
       /\ (last'.op = "setBackgroundIndex")
          => \A x \in Entities :
                 memoised'[x] = IF x \in reachOf(last'.ent)
                                THEN keptFor(memoised[x], "backgroundIndex") ELSE memoised[x]
       /\ (last'.op \in ActiveChange /\ last'.err = "ok")
          => \A x \in Entities :
                 IF x \in reachOf(last'.ent) THEN memoised'[x] = EmptyMemo
                 ELSE x \notin dependentsReach(last'.ent) => memoised'[x] = memoised[x]]_vars

\* A parameter was set on a sample well while a sibling well holds memoised raw OD and OD.
C5_Witness ==
    /\ last.op = "setExplicitParameter"
    /\ last.err = "ok"
    /\ ~isReplicateGroup(last.ent)
    /\ \E x \in childWells(replicateGroupParent(last.ent)) \ {last.ent} :
           /\ memoised[x]["rawOd"].t = "array"
           /\ memoised[x]["od"].t = "array"

\* C6: after a successful active-child change on a group that is the background of other
\* entities, every well and group whose background it is, the parent group of each such
\* well and the child wells of each such group hold no memoised od, odVar or derived
\* entry, and the next od() of a dependent is computed from the background's new raw OD.
C6_BackgroundDependentsCleared ==
    (last.op \in ActiveChange /\ last.err = "ok")
    => /\ \A x \in dependentsReach(last.ent) :
              \A k \in MemoKeys \ {"rawOd", "rawOdVar"} : ~Present(memoised, x, k)
       /\ \A x \in dependentsOf(last.ent) :
              /\ od(memoised, x).err = od(NoMemo, x).err
              /\ od(memoised, x).val = od(NoMemo, x).val

\* The blank group lost an active child, and a dependent's OD is defined.
C6_Witness ==
    /\ last.op \in ActiveChange
    /\ last.err = "ok"
    /\ activeWellIndices[last.ent] # defaultActiveWellIndices(last.ent)
    /\ \E x \in dependentsOf(last.ent) : od(memoised, x).val.t = "array"

\* C7: whatever setActiveChildWellIndices and activateChildWellIndex calls were made,
\* failed ones included, every replicate group's active child index list holds only
\* indices in [0, number of children), no index twice, and only children with raw data.
C7_ActiveSetInvariant ==
    \A g \in Groups :
        \A k \in 1..Len(activeWellIndices[g]) :
            /\ activeWellIndices[g][k] >= 0
            /\ activeWellIndices[g][k] < Len(replicateGroupChildren[g[2]])
            /\ plateRawOd[replicateGroupChildren[g[2]][activeWellIndices[g][k] + 1]] # None
            /\ \A j \in 1..(k - 1) : activeWellIndices[g][j] # activeWellIndices[g][k]

hdCorrectionUnset ==
    \E par \in {"hdCorrectionLinear", "hdCorrectionQuadratic", "hdCorrectionCubic"} :
        plateParameters[par] = None

noActiveChildWithRawOd(e) ==
    \A k \in 1..Len(activeWellIndices[e]) :
        \/ activeWellIndices[e][k] < 0
        \/ activeWellIndices[e][k] >= Len(childWellIndices(e))
        \/ plateRawOd[childWellIndices(e)[activeWellIndices[e][k] + 1]] = None

\* C8: od() and odVar() of a well or group are undefined (None) whenever the entity has
\* no background, or a coefficient of the high-density correction is unset on the plate,
\* or the entity has no active child with raw data.
C8_UndefinedPropagates ==
    \A e \in Entities :
        (backgroundIndex[e] = None \/ hdCorrectionUnset \/ noActiveChildWithRawOd(e))
        => /\ od(memoised, e).err = "ok"
           /\ od(memoised, e).val = NoneVal
           /\ odVar(memoised, e).err = "ok"
           /\ odVar(memoised, e).val = NoneVal

\* C9: od() on a well or group never raises; when all children of the entity's
\* background group are deactivated, od() of the entity returns undefined (None).
C9_OdNeverRaises ==
    \A e \in Entities :
        /\ od(memoised, e).err = "ok"
        /\ (backgroundIndex[e] # None /\ activeWellIndices[G(backgroundIndex[e][1])] = << >>)
           => od(memoised, e).val = NoneVal

GrowthrateAccessors == {"maxGrowthrate", "maxGrowthrateFromLogOdDerivative"}

\* C10: calling maxGrowthrate() or maxGrowthrateFromLogOdDerivative() twice in a row on
\* a well or group gives the same outcome (value, undefined result or error) both times,
\* and the second call changes no memoised entry of any entity.
C10_GrowthrateIdempotent ==
    \A e \in Entities : \A q \in GrowthrateAccessors :
        /\ Call(Call(memoised, e, q).m, e, q).err = Call(memoised, e, q).err
        /\ Call(Call(memoised, e, q).m, e, q).val = Call(memoised, e, q).val
        /\ Call(Call(memoised, e, q).m, e, q).m = Call(memoised, e, q).m

----------------------------------------------------------------------------
(* Regrouping.  A plate of four wells whose sample ids and conditions are   *)
(* replaced by Plate.setWellMetadata, saved and loaded again.  The plate is *)
(* one record: rawOd tells which wells have data, wells holds the             *)
(* single-well Replicate objects by well index, groupObjects every          *)
(* replicate-group Replicate object the plate has built so far (an object   *)
(* is named by its position), replicateGroups the objects the plate lists.  *)
(* A cache is held as the set of its keys.                                  *)

\* The number of calls made to the regrouped plate in one run.
MaxMetaSteps == 3

MetaWellIdx == {0, 1, 2, 3}
wellOrder == <<0, 1, 2, 3>>

\* A list of four wells and a list of objects, held element by element.
wellList(f) == (0 :> f[0]) @@ (1 :> f[1]) @@ (2 :> f[2]) @@ (3 :> f[3])
objectList(s) == s \o << >>

\* The sample ids and the conditions in the order list.sort() gives them.
SampleOrder == <<"BACKGROUND", "BLANK", "a", "b">>
ConditionOrder == <<"", "c">>

\* str.upper on the ids used here.
upper(s) ==
    CASE s = "blank" -> "BLANK"
      [] s = "background" -> "BACKGROUND"
      [] s = "a" -> "A"
      [] s = "b" -> "B"
      [] OTHER -> s

capitaliseBackgroundIds == <<"blank", "background">>

\* Plate.capitaliseId
capitaliseId(sampleId) ==
    IF \E k \in 1..Len(capitaliseBackgroundIds) :
           upper(sampleId) = upper(capitaliseBackgroundIds[k])
    THEN upper(capitaliseBackgroundIds[
             CHOOSE k \in 1..Len(capitaliseBackgroundIds) :
                 upper(sampleId) = upper(capitaliseBackgroundIds[k])])
    ELSE sampleId

noExplicitParameters == [par \in InheritableParameters |-> None]

\* Replicate._clearMemoised on a set of keys
clearMemoisedKeys(keys, par) ==
    IF par \in memoisedDontClearKeys THEN keys \cap memoisedDontClear(par) ELSE {}

\* Replicate._setActiveChildWellIndices(None): the children that have data
activeWithData(hasData, wellIndices) ==
    SelectSeq([k \in 1..Len(wellIndices) |-> k - 1], LAMBDA k : hasData[wellIndices[k + 1]])

\* Replicate.__init__ for a single well
newWell(hasData, i, sampleid, condition) ==
    [sampleid |-> sampleid, condition |-> condition,
     inheritableParameters |-> noExplicitParameters,
     activeWellIndices |-> activeWithData(hasData, <<i>>),
     replicateGroupParent |-> None, backgroundIndex |-> None, background |-> None,
     memoised |-> {}]

\* Replicate.__init__ for a replicate group
newGroup(hasData, sampleid, condition, wellIndices) ==
    [sampleid |-> Some(sampleid), condition |-> Some(condition),
     inheritableParameters |-> Some(noExplicitParameters),
     wellIndices |-> Some(wellIndices),
     activeWellIndices |-> Some(activeWithData(hasData, wellIndices)),
     backgroundIndex |-> None, background |-> None, memoised |-> {}]

\* Replicate._invalidate
invalidated ==
    [sampleid |-> None, condition |-> None, inheritableParameters |-> None,
     wellIndices |-> None, activeWellIndices |-> None,
     backgroundIndex |-> None, background |-> None, memoised |-> {}]

\* A grouping by sample id alone.
sampleToWellIdcs(ws, sampleid, condition) ==
    SelectSeq(wellOrder, LAMBDA i : ws[i].sampleid = sampleid)

\* Plate._createSampleConditionToWellIndices: the wells of one sample and condition
sampleConditionToWellIdcs(ws, sampleid, condition) ==
    SelectSeq(wellOrder, LAMBDA i : ws[i].sampleid = sampleid /\ ws[i].condition = condition)

sampleConditionPairs ==
    [k \in 1..(Len(SampleOrder) * Len(ConditionOrder)) |->
        <<SampleOrder[((k - 1) \div Len(ConditionOrder)) + 1],
          ConditionOrder[((k - 1) % Len(ConditionOrder)) + 1]>>]

\* Plate._createReplicateGroupsFromSampleIdsNConditions
createReplicateGroupsFromSampleIdsNConditions(p) ==
    LET pairs == SelectSeq(sampleConditionPairs,
                     LAMBDA pr : sampleConditionToWellIdcs(p.wells, pr[1], pr[2]) # << >>)
        base == Len(p.groupObjects)
        built == objectList([k \in 1..Len(pairs) |->
                     newGroup(p.rawOd, pairs[k][1], pairs[k][2],
                              sampleConditionToWellIdcs(p.wells, pairs[k][1], pairs[k][2]))])
        parentOf(i) == base + (CHOOSE k \in 1..Len(pairs) :
                                   /\ p.wells[i].sampleid = pairs[k][1]
                                   /\ p.wells[i].condition = pairs[k][2])
    IN  [p EXCEPT !.groupObjects = @ \o built,
                  !.replicateGroups = objectList([k \in 1..Len(pairs) |-> base + k]),
                  !.wells = wellList([i \in MetaWellIdx |->
                                [@[i] EXCEPT !.replicateGroupParent = Some(parentOf(i))]])]

listedGroups(p) == {p.replicateGroups[k] : k \in 1..Len(p.replicateGroups)}

\* Replicate.childWells of the group object g
groupChildWells(p, g) ==
    IF p.groupObjects[g].wellIndices = None THEN {}
    ELSE {p.groupObjects[g].wellIndices[1][k] :
              k \in 1..Len(p.groupObjects[g].wellIndices[1])}

\* Plate._indexOfReplicateGroup
indexOfReplicateGroup(p, g) ==
    (CHOOSE k \in 1..Len(p.replicateGroups) :
         p.groupObjects[p.replicateGroups[k]].wellIndices = p.groupObjects[g].wellIndices) - 1

\* The caches of the wells ws and of the group objects gs take Replicate._clearMemoised(par).
clearMemoisedOf(p, ws, gs, par) ==
    [p EXCEPT !.wells = wellList([i \in MetaWellIdx |->
                            IF i \in ws
                            THEN [@[i] EXCEPT !.memoised = clearMemoisedKeys(@, par)]
                            ELSE @[i]]),
              !.groupObjects = objectList([g \in 1..Len(@) |->
                            IF g \in gs
                            THEN [@[g] EXCEPT !.memoised = clearMemoisedKeys(@, par)]
                            ELSE @[g]])]

wellParent(p, i) ==
    IF p.wells[i].replicateGroupParent = None THEN {} ELSE {p.wells[i].replicateGroupParent[1]}

\* Plate._replicateChanged(g): whoever has g as background forgets everything, with its
\* children or its parent.
dependentWells(p, g) ==
    {i \in MetaWellIdx : p.wells[i].backgroundIndex = Some(indexOfReplicateGroup(p, g))}

dependentGroups(p, g) ==
    {h \in listedGroups(p) : p.groupObjects[h].backgroundIndex = Some(indexOfReplicateGroup(p, g))}

plateReplicateChanged(p, g) ==
    clearMemoisedOf(p,
        dependentWells(p, g) \cup UNION {groupChildWells(p, h) : h \in dependentGroups(p, g)},
        dependentGroups(p, g) \cup UNION {wellParent(p, i) : i \in dependentWells(p, g)},
        "backgroundRawOd")

\* Replicate._parametersUpdated of the well i
wellParametersUpdated(p, i, par) ==
    [clearMemoisedOf(p, {i}, wellParent(p, i), par) EXCEPT !.modified = TRUE]

\* Replicate._parametersUpdated of the group object g
groupParametersUpdated(p, g, par) ==
    [(IF par = "activewells"
      THEN plateReplicateChanged(clearMemoisedOf(p, groupChildWells(p, g), {g}, par), g)
      ELSE clearMemoisedOf(p, groupChildWells(p, g), {g}, par))
     EXCEPT !.modified = TRUE]

\* Plate._parametersUpdated: the caches of this plate hold raw data only, which no
\* plate parameter clears.
defaultParametersUpdated(p, par) ==
    [clearMemoisedOf(p, {}, {}, par) EXCEPT !.modified = TRUE]

\* Replicate.getParameter of the group object g
groupGetParameter(p, g, par) ==
    IF par \in PurePlateParameters THEN p.inheritableParameters[par]
    ELSE IF p.groupObjects[g].inheritableParameters[1][par] # None
         THEN p.groupObjects[g].inheritableParameters[1][par]
    ELSE p.inheritableParameters[par]

\* Replicate.getParameter of the well i
wellGetParameter(p, i, par) ==
    IF par \in PurePlateParameters THEN p.inheritableParameters[par]
    ELSE IF p.wells[i].inheritableParameters[par] # None
         THEN p.wells[i].inheritableParameters[par]
    ELSE IF p.wells[i].replicateGroupParent # None
            /\ groupGetParameter(p, p.wells[i].replicateGroupParent[1], par) # None
         THEN groupGetParameter(p, p.wells[i].replicateGroupParent[1], par)
    ELSE p.inheritableParameters[par]

\* Replicate._setExplicitParameter of the well i, for a parameter it may hold
wellSetExplicitParameter(p, i, par, val) ==
    wellParametersUpdated([p EXCEPT !.wells[i].inheritableParameters[par] = val], i, par)

\* Replicate._setExplicitParameter of the group object g, for a parameter it may hold
groupSetExplicitParameter(p, g, par, val) ==
    groupParametersUpdated(
        [p EXCEPT !.groupObjects[g].inheritableParameters =
                      Some([@[1] EXCEPT ![par] = val])], g, par)

\* Plate._setDefaultParameter, for a parameter the plate holds
plateSetDefaultParameter(p, par, val) ==
    defaultParametersUpdated([p EXCEPT !.inheritableParameters[par] = val], par)

\* Replicate._setBackgroundIndex of the well i
wellSetBackgroundIndex(p, i, idx) ==
    wellParametersUpdated(
        [p EXCEPT !.wells[i].backgroundIndex = idx,
                  !.wells[i].background =
                      IF idx = None THEN None ELSE Some(p.replicateGroups[idx[1] + 1])],
        i, "backgroundIndex")

\* Replicate._setBackgroundIndex of the group object g
groupSetBackgroundIndex(p, g, idx) ==
    groupParametersUpdated(
        [p EXCEPT !.groupObjects[g].backgroundIndex = idx,
                  !.groupObjects[g].background =
                      IF idx = None THEN None ELSE Some(p.replicateGroups[idx[1] + 1])],
        g, "backgroundIndex")

\* The keys of Replicate._inheritableParameters in the order the dictionary lists them.
inheritableParameterOrder ==
    <<"maxGrowthLowerTimeCutoff", "maxGrowthUpperTimeCutoff",
      "allowMaxGrowthrateAtLowerCutoff", "allowGrowthyieldSlopeNStderrAwayFromZero">>

\* Plate._explicitlySetParsInChildWells: every child of a listed group is given, as its
\* own value, the value it resolves to.
RECURSIVE explicitlySetFrom(_, _, _)
explicitlySetFrom(p, par, k) ==
    IF k > Len(wellOrder) THEN p
    ELSE explicitlySetFrom(
             IF \E g \in listedGroups(p) : wellOrder[k] \in groupChildWells(p, g)
             THEN wellSetExplicitParameter(p, wellOrder[k], par,
                                           wellGetParameter(p, wellOrder[k], par))
             ELSE p,
             par, k + 1)

\* The wells are left with the values they hold themselves.
keepParsOfChildWells(p, par) == p

explicitlySetParsInChildWells(p, par) == explicitlySetFrom(p, par, 1)

\* The list is dropped, the objects are left as they are.
forgetReplicateGroups(p) == [p EXCEPT !.replicateGroups = << >>]

\* Plate._clearReplicateGroups
clearReplicateGroups(p) ==
    [p EXCEPT !.groupObjects = objectList([g \in 1..Len(@) |->
                                   IF g \in listedGroups(p) THEN invalidated ELSE @[g]]),
              !.replicateGroups = << >>]

RECURSIVE unsetWellBackgrounds(_, _)
unsetWellBackgrounds(p, k) ==
    IF k > Len(wellOrder) THEN p
    ELSE unsetWellBackgrounds(wellSetBackgroundIndex(p, wellOrder[k], None), k + 1)

RECURSIVE unsetGroupBackgrounds(_, _)
unsetGroupBackgrounds(p, k) ==
    IF k > Len(p.replicateGroups) THEN p
    ELSE unsetGroupBackgrounds(groupSetBackgroundIndex(p, p.replicateGroups[k], None), k + 1)

\* Plate._clearMetadata
clearMetadata(p) == unsetWellBackgrounds(clearReplicateGroups(p), 1)

\* Plate._guessBackgroundSampleIds
guessBackgroundSampleIds(p) ==
    SelectSeq(<<"BACKGROUND", "BLANK">>,
              LAMBDA s : \E i \in MetaWellIdx : p.wells[i].sampleid = s)

\* Plate._sampleConditionToReplicateGroupIdcs[sampleid][condition], as indices into
\* Plate.replicateGroups
sampleConditionToReplicateGroupIdcs(p, sampleid, condition) ==
    SelectSeq([k \in 1..Len(p.replicateGroups) |-> k - 1],
              LAMBDA k : /\ p.groupObjects[p.replicateGroups[k + 1]].sampleid = Some(sampleid)
                         /\ p.groupObjects[p.replicateGroups[k + 1]].condition = Some(condition))

RECURSIVE setWellBackgrounds(_, _, _)
setWellBackgrounds(p, backgroundSampleId, k) ==
    IF k > Len(wellOrder) THEN p
    ELSE setWellBackgrounds(
             IF /\ p.wells[wellOrder[k]].sampleid # backgroundSampleId
                /\ sampleConditionToReplicateGroupIdcs(
                       p, backgroundSampleId, p.wells[wellOrder[k]].condition) # << >>
             THEN wellSetBackgroundIndex(p, wellOrder[k],
                      Some(sampleConditionToReplicateGroupIdcs(
                               p, backgroundSampleId, p.wells[wellOrder[k]].condition)[1]))
             ELSE p,
             backgroundSampleId, k + 1)

RECURSIVE setGroupBackgrounds(_, _, _)
setGroupBackgrounds(p, backgroundSampleId, k) ==
    IF k > Len(p.replicateGroups) THEN p
    ELSE setGroupBackgrounds(
             IF /\ p.groupObjects[p.replicateGroups[k]].sampleid # Some(backgroundSampleId)
                /\ sampleConditionToReplicateGroupIdcs(
                       p, backgroundSampleId,
                       p.groupObjects[p.replicateGroups[k]].condition[1]) # << >>
             THEN groupSetBackgroundIndex(p, p.replicateGroups[k],
                      Some(sampleConditionToReplicateGroupIdcs(
                               p, backgroundSampleId,
                               p.groupObjects[p.replicateGroups[k]].condition[1])[1]))
             ELSE p,
             backgroundSampleId, k + 1)

\* Plate._setBackgroundForAllReplicates: the plate it leaves and how it ended
setBackgroundForAllReplicates(p, backgroundSampleIds) ==
    IF backgroundSampleIds = << >>
    THEN [p |-> unsetGroupBackgrounds(unsetWellBackgrounds(p, 1), 1), err |-> "ok"]
    ELSE IF Len(backgroundSampleIds) > 1
    THEN [p |-> p, err |-> "MultipleBackgroundIdsError"]
    ELSE [p |-> setGroupBackgrounds(
                    setWellBackgrounds(p, backgroundSampleIds[1], 1),
                    backgroundSampleIds[1], 1),
          err |-> "ok"]

\* Plate._getChildParvalOccurrence over the wells ws: how often each resolved value occurs
getChildParvalOccurrence(p, ws, par) ==
    [v \in {wellGetParameter(p, i, par) : i \in ws} |->
        Cardinality({i \in ws : wellGetParameter(p, i, par) = v})]

\* Plate._chooseDefaultFromOccurrences: nothing when a well has no value; the parent's
\* default when a well has it; else the smallest of the values that occur most often.
chooseDefaultFromOccurrences(parvals, parentdefault) ==
    IF None \in DOMAIN parvals THEN None
    ELSE IF parentdefault # None /\ parentdefault \in DOMAIN parvals THEN parentdefault
    ELSE IF DOMAIN parvals = {} THEN None
    ELSE CHOOSE v \in DOMAIN parvals :
             \A u \in DOMAIN parvals :
                 \/ parvals[u] < parvals[v]
                 \/ parvals[u] = parvals[v] /\ v[1] <= u[1]

\* Plate._getChildren of the plate, down to the wells
plateLeafWells(p) == UNION {groupChildWells(p, g) : g \in listedGroups(p)}

RECURSIVE deleteConsensusFromWells(_, _, _, _, _)
deleteConsensusFromWells(p, g, par, newdefaultval, k) ==
    IF k > Len(p.groupObjects[g].wellIndices[1]) THEN p
    ELSE deleteConsensusFromWells(
             IF newdefaultval = wellGetParameter(p, p.groupObjects[g].wellIndices[1][k], par)
             THEN wellSetExplicitParameter(p, p.groupObjects[g].wellIndices[1][k], par, None)
             ELSE p,
             g, par, newdefaultval, k + 1)

\* Plate._reduceExplicitParametersHelper called with the group object g
reduceGroupParameter(p, g, par, parentdefault) ==
    LET newdefaultval == chooseDefaultFromOccurrences(
                             getChildParvalOccurrence(p, groupChildWells(p, g), par),
                             parentdefault)
    IN  IF newdefaultval = None THEN p
        ELSE groupSetExplicitParameter(
                 deleteConsensusFromWells(p, g, par, newdefaultval, 1), g, par, newdefaultval)

RECURSIVE reduceGroupsFrom(_, _, _, _)
reduceGroupsFrom(p, par, platedefault, k) ==
    IF k > Len(p.replicateGroups) THEN p
    ELSE reduceGroupsFrom(reduceGroupParameter(p, p.replicateGroups[k], par, platedefault),
                          par, platedefault, k + 1)

RECURSIVE deleteConsensusFromGroups(_, _, _, _)
deleteConsensusFromGroups(p, par, newdefaultval, k) ==
    IF k > Len(p.replicateGroups) THEN p
    ELSE deleteConsensusFromGroups(
             IF newdefaultval = groupGetParameter(p, p.replicateGroups[k], par)
             THEN groupSetExplicitParameter(p, p.replicateGroups[k], par, None)
             ELSE p,
             par, newdefaultval, k + 1)

\* The plate takes the new default while the groups keep the values they hold.
setPlateDefaultOnly(p, par, parentdefault) ==
    LET newdefaultval == chooseDefaultFromOccurrences(
                             getChildParvalOccurrence(p, plateLeafWells(p), par),
                             parentdefault)
    IN  IF newdefaultval = None THEN p
        ELSE plateSetDefaultParameter(p, par, newdefaultval)

\* Plate._reduceExplicitParametersHelper called with the plate
reducePlateParameter(p, par, parentdefault) ==
    LET newdefaultval == chooseDefaultFromOccurrences(
                             getChildParvalOccurrence(p, plateLeafWells(p), par),
                             parentdefault)
    IN  IF newdefaultval = None THEN p
        ELSE plateSetDefaultParameter(
                 deleteConsensusFromGroups(p, par, newdefaultval, 1), par, newdefaultval)

\* Plate._reduceExplicitParameter
reduceExplicitParameter(p, par) ==
    LET platedefault == chooseDefaultFromOccurrences(
                            getChildParvalOccurrence(p, plateLeafWells(p), par), None)
    IN  reducePlateParameter(reduceGroupsFrom(p, par, platedefault, 1), par, platedefault)

RECURSIVE explicitlySetEveryParameter(_, _)
explicitlySetEveryParameter(p, k) ==
    IF k > Len(inheritableParameterOrder) THEN p
    ELSE explicitlySetEveryParameter(
             explicitlySetParsInChildWells(p, inheritableParameterOrder[k]), k + 1)

RECURSIVE reduceEveryParameter(_, _)
reduceEveryParameter(p, k) ==
    IF k > Len(inheritableParameterOrder) THEN p
    ELSE reduceEveryParameter(reduceExplicitParameter(p, inheritableParameterOrder[k]), k + 1)

\* Plate.wellMetadataOk
wellMetadataOk(metadata) ==
    /\ Len(metadata) = Cardinality(MetaWellIdx)
    /\ \A k \in 1..Len(metadata) : DOMAIN metadata[k] = {"sample", "condition"}

\* Replicate._setMetadata after Plate.capitaliseId, for every well
setMetadataOfWells(p, metadata) ==
    [p EXCEPT !.wells = wellList([i \in MetaWellIdx |->
        [@[i] EXCEPT !.sampleid = capitaliseId(metadata[i + 1].sample),
                     !.condition = IF metadata[i + 1].condition = None THEN ""
                                   ELSE metadata[i + 1].condition[1]]])]

\* Plate.setWellMetadata: the plate it leaves and how it ended
setWellMetadata(p, metadata) ==
    IF ~wellMetadataOk(metadata) THEN [p |-> p, err |-> "BadMetadata"]
    ELSE LET regrouped == createReplicateGroupsFromSampleIdsNConditions(
                              setMetadataOfWells(
                                  clearMetadata(explicitlySetEveryParameter(p, 1)), metadata))
             withBackground == setBackgroundForAllReplicates(
                                   regrouped, guessBackgroundSampleIds(regrouped))
         IN  IF withBackground.err # "ok" THEN withBackground
             ELSE [p |-> reduceEveryParameter(withBackground.p, 1), err |-> "ok"]

\* Replicate._checkActiveWellIndices against the child wells wellIndices: "ok", or the
\* exception the first offending index raises.
RECURSIVE checkActiveAmong(_, _, _, _)
checkActiveAmong(hasData, wellIndices, lst, k) ==
    IF k > Len(lst) THEN "ok"
    ELSE IF lst[k] < 0 \/ lst[k] >= Len(wellIndices) THEN "IndexError"
    ELSE IF ~hasData[wellIndices[lst[k] + 1]] THEN "RuntimeError"
    ELSE IF \E j \in 1..(k - 1) : lst[j] = lst[k] THEN "RuntimeError"
    ELSE checkActiveAmong(hasData, wellIndices, lst, k + 1)

\* Replicate.setActiveChildWellIndices of the group object g, once the list is checked
groupSetActiveChildWellIndices(p, g, lst) ==
    groupParametersUpdated([p EXCEPT !.groupObjects[g].activeWellIndices = Some(lst)],
                           g, "activewells")

\* Replicate._serialise of a single well and of a replicate group
serialiseWell(p, i) ==
    [sampleId |-> p.wells[i].sampleid, condition |-> p.wells[i].condition,
     inheritableParameters |-> p.wells[i].inheritableParameters,
     wellIndices |-> <<i>>, activeWellIndices |-> p.wells[i].activeWellIndices,
     backgroundIndex |-> p.wells[i].backgroundIndex]

serialiseGroup(p, g) ==
    [sampleId |-> p.groupObjects[g].sampleid[1], condition |-> p.groupObjects[g].condition[1],
     inheritableParameters |-> p.groupObjects[g].inheritableParameters[1],
     wellIndices |-> p.groupObjects[g].wellIndices[1],
     activeWellIndices |-> p.groupObjects[g].activeWellIndices[1],
     backgroundIndex |-> p.groupObjects[g].backgroundIndex]

\* Plate._serialise: raw.tolist() fails on a well without data
serialiseOutcome(p) == IF \E i \in MetaWellIdx : ~p.rawOd[i] THEN "AttributeError" ELSE "ok"

serialise(p) ==
    [plateId |-> p.plateId, time |-> p.time,
     inheritableParameters |-> p.inheritableParameters,
     rawOd |-> p.rawOd,
     wells |-> [k \in 1..Len(wellOrder) |-> serialiseWell(p, wellOrder[k])],
     replicateGroup |-> [k \in 1..Len(p.replicateGroups) |->
                            serialiseGroup(p, p.replicateGroups[k])]]

\* Replicate._deserialise lets _setWellIndices check the active indices of the file
RECURSIVE deserialiseReplicatesOutcome(_, _, _)
deserialiseReplicatesOutcome(hasData, replicates, k) ==
    IF k > Len(replicates) THEN "ok"
    ELSE IF checkActiveAmong(hasData, replicates[k].wellIndices,
                             replicates[k].activeWellIndices, 1) # "ok"
         THEN checkActiveAmong(hasData, replicates[k].wellIndices,
                               replicates[k].activeWellIndices, 1)
    ELSE deserialiseReplicatesOutcome(hasData, replicates, k + 1)

deserialiseOutcome(sr) ==
    IF deserialiseReplicatesOutcome(sr.rawOd, sr.wells, 1) # "ok"
    THEN deserialiseReplicatesOutcome(sr.rawOd, sr.wells, 1)
    ELSE deserialiseReplicatesOutcome(sr.rawOd, sr.replicateGroup, 1)

\* Plate._deserialise, for a file whose replicates pass the check: new Replicate objects,
\* the parents taken from the groups' child lists, the background objects from the
\* background indices, nothing memoised.
deserialise(sr) ==
    [plateId |-> sr.plateId, time |-> sr.time,
     rawOd |-> sr.rawOd,
     wells |-> [i \in MetaWellIdx |->
         [sampleid |-> sr.wells[i + 1].sampleId, condition |-> sr.wells[i + 1].condition,
          inheritableParameters |-> sr.wells[i + 1].inheritableParameters,
          activeWellIndices |-> sr.wells[i + 1].activeWellIndices,
          replicateGroupParent |->
              IF \E k \in 1..Len(sr.replicateGroup) : InList(sr.replicateGroup[k].wellIndices, i)
              THEN Some(CHOOSE k \in 1..Len(sr.replicateGroup) :
                            /\ InList(sr.replicateGroup[k].wellIndices, i)
                            /\ \A j \in (k + 1)..Len(sr.replicateGroup) :
                                   ~InList(sr.replicateGroup[j].wellIndices, i))
              ELSE None,
          backgroundIndex |-> sr.wells[i + 1].backgroundIndex,
          background |-> IF sr.wells[i + 1].backgroundIndex = None THEN None
                         ELSE Some(sr.wells[i + 1].backgroundIndex[1] + 1),
          memoised |-> {}]],
     groupObjects |-> [k \in 1..Len(sr.replicateGroup) |->
         [sampleid |-> Some(sr.replicateGroup[k].sampleId),
          condition |-> Some(sr.replicateGroup[k].condition),
          inheritableParameters |-> Some(sr.replicateGroup[k].inheritableParameters),
          wellIndices |-> Some(sr.replicateGroup[k].wellIndices),
          activeWellIndices |-> Some(sr.replicateGroup[k].activeWellIndices),
          backgroundIndex |-> sr.replicateGroup[k].backgroundIndex,
          background |-> IF sr.replicateGroup[k].backgroundIndex = None THEN None
                         ELSE Some(sr.replicateGroup[k].backgroundIndex[1] + 1),
          memoised |-> {}]],
     replicateGroups |-> [k \in 1..Len(sr.replicateGroup) |-> k],
     inheritableParameters |-> sr.inheritableParameters,
     modified |-> FALSE]

SecondsPerHour == 3600

\* The time points of the measurements, in seconds, and the name of the plate
TimeInput == <<0, 3600, 7200>>

PlateIdInput == "plate1"

\* Plate._initFromArrays and the end of Plate.__init__
initFromArrays(hasData, ids, conditions) ==
    LET grouped == createReplicateGroupsFromSampleIdsNConditions(
                       [plateId |-> PlateIdInput,
                        time |-> [k \in 1..Len(TimeInput) |-> TimeInput[k] \div SecondsPerHour]
                                     \o << >>,
                        rawOd |-> hasData,
                        wells |-> [i \in MetaWellIdx |->
                                      newWell(hasData, i, capitaliseId(ids[i + 1]),
                                              conditions[i + 1])],
                        groupObjects |-> << >>,
                        replicateGroups |-> << >>,
                        inheritableParameters |-> arrayParameters,
                        modified |-> FALSE])
    IN  [setBackgroundForAllReplicates(grouped, guessBackgroundSampleIds(grouped)).p
         EXCEPT !.modified = FALSE]

----------------------------------------------------------------------------
(* The calls made to the regrouped plate                                   *)

M(sample, condition) == [sample |-> sample, condition |-> condition]

MetadataInputs ==
    {<<M("BLANK", Some("")), M("a", Some("")), M("a", Some("")), M("b", Some(""))>>,
     <<M("a", Some("")), M("a", Some("")), M("a", Some("")), M("a", Some(""))>>,
     <<M("BLANK", Some("")), M("a", Some("")), M("a", Some("c")), M("a", Some("c"))>>,
     <<M("blank", None), M("blank", None), M("b", None), M("a", None)>>,
     <<M("BLANK", Some("")), M("BACKGROUND", Some("")), M("a", Some("")), M("a", Some(""))>>,
     <<M("BLANK", Some("")), M("a", Some("")), M("a", Some(""))>>,
     <<M("BLANK", Some("")), M("a", Some("")), M("a", Some("")), [sample |-> "b"]>>}

\* The arrays a plate is constructed from: which wells have data, sample ids, conditions.
RawOdInputs ==
    {[i \in MetaWellIdx |-> TRUE], [i \in MetaWellIdx |-> i # 2]}

SampleIdInputs == {<<"BLANK", "a", "a", "b">>, <<"blank", "a", "b", "b">>}

ConditionInputs == {<<"", "", "", "">>}

\* A parameter a replicate may hold with three values, and a name that is refused:
\* by the plate an unknown one, by a replicate a plate-wide one.
MetaParameter == "allowGrowthyieldSlopeNStderrAwayFromZero"

PlateParameterInputs ==
    {<<MetaParameter, None>>, <<MetaParameter, Some(1)>>, <<MetaParameter, Some(2)>>,
     <<UnknownParameter, Some(1)>>}

ReplicateParameterInputs ==
    {<<MetaParameter, None>>, <<MetaParameter, Some(1)>>, <<MetaParameter, Some(2)>>,
     <<"hdCorrectionLinear", Some(1)>>}

MetaActiveListInputs == {<< >>, <<1, 0>>, <<0, 0>>}

ActivationInputs == {<<2, TRUE>>, <<0, FALSE>>}

MetaBackgroundInputs == {None, Some(0)}

\* The entities of the regrouped plate: its wells and the groups it lists.
MetaEntities(p) == {W(i) : i \in MetaWellIdx} \cup {G(g) : g \in listedGroups(p)}

\* One well, and the groups the plate lists.
SomeMetaEntities(p) == {W(1)} \cup {G(g) : g \in listedGroups(p)}

\* One well, and the group the plate lists last.
FewMetaEntities(p) == {W(1), G(p.replicateGroups[Len(p.replicateGroups)])}

InitMeta ==
    /\ plateParameters = arrayParameters
    /\ inheritableParameters = [e \in Entities |-> [par \in InheritableParameters |-> None]]
    /\ activeWellIndices = [e \in Entities |-> defaultActiveWellIndices(e)]
    /\ backgroundIndex = [e \in Entities |-> guessedBackgroundIndex(e)]
    /\ memoised = [e \in Entities |-> EmptyMemo]
    /\ modified = FALSE
    /\ plateBackgroundGroupIndices = None
    /\ plateBackgroundWellIndices = None
    /\ last = NoCall
    /\ steps = 0
    /\ plate \in {initFromArrays(hasData, ids, conditions) :
                     hasData \in RawOdInputs, ids \in SampleIdInputs,
                     conditions \in ConditionInputs}
    /\ statuses = None
    /\ growth = None
    /\ cls = None
    /\ well = None

MetaCalled(op, e, par, arg, err) ==
    /\ steps < MaxMetaSteps
    /\ last' = [op |-> op, ent |-> e, par |-> par, arg |-> arg, err |-> err, res |-> NoneVal]
    /\ steps' = steps + 1
    /\ UNCHANGED <<fixedGroupingVars, statuses, growth, cls, well>>

\* Plate.setWellMetadata
SetWellMetadata(metadata) ==
    /\ steps < MaxMetaSteps
    /\ \E outcome \in {setWellMetadata(plate, metadata)} :
        /\ MetaCalled("setWellMetadata", ThePlate, "", metadata, outcome.err)
        /\ plate' = outcome.p

\* Plate._setDefaultParameter
SetPlateParameter(par, val) ==
    /\ MetaCalled("setDefaultParameter", ThePlate, par, val, setDefaultParameterOutcome(par))
    /\ plate' = IF setDefaultParameterOutcome(par) # "ok" THEN plate
                ELSE plateSetDefaultParameter(plate, par, val)

\* Replicate._setExplicitParameter of a well or of a listed group
SetReplicateParameter(e, par, val) ==
    /\ MetaCalled("setExplicitParameter", e, par, val, setExplicitParameterOutcome(par))
    /\ plate' = IF setExplicitParameterOutcome(par) # "ok" THEN plate
                ELSE IF isReplicateGroup(e) THEN groupSetExplicitParameter(plate, e[2], par, val)
                ELSE wellSetExplicitParameter(plate, e[2], par, val)

\* Replicate.setActiveChildWellIndices of a listed group
SetGroupActiveChildWellIndices(g, lst) ==
    LET outcome == checkActiveAmong(plate.rawOd, plate.groupObjects[g].wellIndices[1], lst, 1)
    IN  /\ MetaCalled("setActiveChildWellIndices", G(g), "", lst, outcome)
        /\ plate' = IF outcome # "ok" THEN plate
                    ELSE groupSetActiveChildWellIndices(plate, g, lst)

\* Replicate.activateChildWellIndex of a listed group: the list the group holds is
\* changed in place before the changed list is checked.
ActivateGroupChildWellIndex(g, index, value) ==
    LET held == activateInPlace(plate.groupObjects[g].activeWellIndices[1], index, value)
        given == activateArgument(plate.groupObjects[g].activeWellIndices[1], index, value)
        outcome == checkActiveAmong(plate.rawOd, plate.groupObjects[g].wellIndices[1], given, 1)
    IN  /\ MetaCalled("activateChildWellIndex", G(g), "", <<index, IF value THEN 1 ELSE 0>>,
                      outcome)
        /\ plate' = IF outcome # "ok"
                    THEN [plate EXCEPT !.groupObjects[g].activeWellIndices = Some(held)]
                    ELSE groupSetActiveChildWellIndices(plate, g, given)

\* Replicate._setBackgroundIndex of a well or of a listed group
SetReplicateBackgroundIndex(e, idx) ==
    /\ idx # None => idx[1] < Len(plate.replicateGroups)
    /\ MetaCalled("setBackgroundIndex", e, "", idx, "ok")
    /\ plate' = IF isReplicateGroup(e) THEN groupSetBackgroundIndex(plate, e[2], idx)
                ELSE wellSetBackgroundIndex(plate, e[2], idx)

\* Plate.save: the file is written from Plate._serialise, then the flag is lowered.
Save ==
    /\ MetaCalled("save", ThePlate, "", << >>, serialiseOutcome(plate))
    /\ plate' = IF serialiseOutcome(plate) # "ok" THEN plate
                ELSE [plate EXCEPT !.modified = FALSE]

\* Plate._serialise, and a Plate constructed from its output (Plate._load); when either
\* raises there is no new plate.
loadOutcome(p) ==
    IF serialiseOutcome(p) # "ok" THEN serialiseOutcome(p) ELSE deserialiseOutcome(serialise(p))

SerialiseAndLoad ==
    /\ MetaCalled("load", ThePlate, "", << >>, loadOutcome(plate))
    /\ plate' = IF loadOutcome(plate) # "ok" THEN plate ELSE deserialise(serialise(plate))

\* Replicate.rawOd of a well or of a listed group: _calculateRawOd enters both keys
\* before it checks the active indices.
rawOdOutcome(p, e) ==
    IF isReplicateGroup(e)
    THEN checkActiveAmong(p.rawOd, p.groupObjects[e[2]].wellIndices[1],
                          p.groupObjects[e[2]].activeWellIndices[1], 1)
    ELSE checkActiveAmong(p.rawOd, <<e[2]>>, p.wells[e[2]].activeWellIndices, 1)

ReadRawOd(e) ==
    /\ MetaCalled("rawOd", e, "", << >>, rawOdOutcome(plate, e))
    /\ plate' = IF isReplicateGroup(e)
                THEN [plate EXCEPT !.groupObjects[e[2]].memoised = @ \cup KeepRaw]
                ELSE [plate EXCEPT !.wells[e[2]].memoised = @ \cup KeepRaw]

NextMeta ==
    \/ \E metadata \in MetadataInputs : SetWellMetadata(metadata)
    \/ \E c \in PlateParameterInputs : SetPlateParameter(c[1], c[2])
    \/ \E e \in MetaEntities(plate), c \in ReplicateParameterInputs :
           SetReplicateParameter(e, c[1], c[2])
    \/ \E g \in listedGroups(plate), lst \in MetaActiveListInputs :
           SetGroupActiveChildWellIndices(g, lst)
    \/ \E g \in listedGroups(plate), c \in ActivationInputs :
           ActivateGroupChildWellIndex(g, c[1], c[2])
    \/ \E e \in FewMetaEntities(plate), idx \in MetaBackgroundInputs :
           SetReplicateBackgroundIndex(e, idx)
    \/ Save
    \/ SerialiseAndLoad
    \/ \E e \in SomeMetaEntities(plate) : ReadRawOd(e)

SpecMeta == InitMeta /\ [][NextMeta]_vars

----------------------------------------------------------------------------
(* Properties of the regrouped plate                                       *)

\* The calls that change what the plate holds.
Mutators ==
    {"setWellMetadata", "setDefaultParameter", "setExplicitParameter",
     "setActiveChildWellIndices", "activateChildWellIndex", "setBackgroundIndex"}

\* What a call should do to Plate.modified: a save or a load that went through lowers
\* it, a mutator that went through raises it, anything else leaves it.
ModifiedFollowsCalls ==
    IF last'.op \in {"save", "load"} /\ last'.err = "ok" THEN ~plate'.modified
    ELSE IF last'.op \in Mutators /\ last'.err = "ok" THEN plate'.modified
    ELSE plate'.modified = plate.modified

\* C11: the modified flag is false after construction, loading and save(); it is true
\* exactly when a parameter set, an active-child change, a background reassignment or a
\* metadata replacement has succeeded since then; reads and failed calls leave it alone.
C11_ModifiedFlag ==
    /\ (steps = 0 => ~plate.modified)
    /\ [][ModifiedFollowsCalls]_vars

\* How often the well i occurs in the child list of the group object g.
timesListed(p, g, i) ==
    Cardinality({k \in 1..Len(p.groupObjects[g].wellIndices[1]) :
                     p.groupObjects[g].wellIndices[1][k] = i})

\* The listed groups partition the wells.
Partition(p) ==
    /\ \A i \in MetaWellIdx :
           /\ \E g \in listedGroups(p) :
                  /\ timesListed(p, g, i) = 1
                  /\ \A h \in listedGroups(p) \ {g} : timesListed(p, h, i) = 0
                  /\ p.wells[i].replicateGroupParent = Some(g)
    /\ \A g \in listedGroups(p) :
           /\ p.groupObjects[g].wellIndices # None
           /\ Len(p.groupObjects[g].wellIndices[1]) >= 1
           /\ \A i \in groupChildWells(p, g) :
                  /\ i \in MetaWellIdx
                  /\ Some(p.wells[i].sampleid) = p.groupObjects[g].sampleid
                  /\ Some(p.wells[i].condition) = p.groupObjects[g].condition
    /\ \A k, j \in 1..Len(p.replicateGroups) :
           k # j =>
               /\ p.replicateGroups[k] # p.replicateGroups[j]
               /\ <<p.groupObjects[p.replicateGroups[k]].sampleid,
                    p.groupObjects[p.replicateGroups[k]].condition>>
                  # <<p.groupObjects[p.replicateGroups[j]].sampleid,
                      p.groupObjects[p.replicateGroups[j]].condition>>

metadataReplaced == last.op = "setWellMetadata" /\ last.err = "ok"

\* C12: after construction from arrays and after every successful setWellMetadata the
\* replicate groups partition the wells: each well is listed once, by one group, which
\* is its parent; no group is empty; the children carry their group's sample id and
\* condition; no two groups have the same sample id and condition.
C12_PartitionInvariant == (steps = 0 \/ metadataReplaced) => Partition(plate)

\* A replacement that split one sample over two conditions: three groups, one of two wells.
C12_Witness ==
    /\ metadataReplaced
    /\ Partition(plate)
    /\ Len(plate.replicateGroups) = 3
    /\ \E g \in listedGroups(plate) :
           /\ plate.groupObjects[g].condition = Some("c")
           /\ plate.groupObjects[g].wellIndices = Some(<<2, 3>>)

\* The object g is referenced by the plate p: listed, a well's parent, or a background.
referenced(p, g) ==
    \/ g \in listedGroups(p)
    \/ \E i \in MetaWellIdx :
           p.wells[i].replicateGroupParent = Some(g) \/ p.wells[i].background = Some(g)
    \/ \E h \in listedGroups(p) : p.groupObjects[h].background = Some(g)

\* Every reference of the plate q goes to an object that the plate p did not have.
referencesAreNew(p, q) ==
    /\ \A g \in listedGroups(q) :
           /\ g > Len(p.groupObjects)
           /\ q.groupObjects[g].background # None => q.groupObjects[g].background[1] \in listedGroups(q)
    /\ \A i \in MetaWellIdx :
           /\ q.wells[i].replicateGroupParent # None
           /\ q.wells[i].replicateGroupParent[1] \in listedGroups(q)
           /\ q.wells[i].background # None => q.wells[i].background[1] \in listedGroups(q)

\* C13: after a successful setWellMetadata every replicate-group object that existed
\* before the call is invalidated (no sample id, parameters, child or active indices,
\* background, nor cache) and nothing refers to it: the group list, the wells' parents
\* and every background reference point to groups built from the new metadata.
C13_RegroupingInvalidatesOldGroups ==
    [][(last'.op = "setWellMetadata" /\ last'.err = "ok") =>
           /\ \A g \in 1..Len(plate.groupObjects) :
                  /\ plate'.groupObjects[g] = invalidated
                  /\ ~referenced(plate', g)
           /\ referencesAreNew(plate, plate')]_vars

\* After a replacement: dead objects next to the listed ones, and a well whose
\* background is one of the new groups.
C13_Witness ==
    /\ metadataReplaced
    /\ \E g \in 1..Len(plate.groupObjects) :
           g \notin listedGroups(plate) /\ plate.groupObjects[g] = invalidated
    /\ \E i \in MetaWellIdx :
           /\ plate.wells[i].background # None
           /\ plate.wells[i].background[1] \in listedGroups(plate)

\* C14: a successful setWellMetadata leaves the value that getParameter resolves to
\* unchanged, for every well and every inheritable parameter, whatever was set at the
\* well, the group or the plate and however the wells are regrouped.
C14_ParametersSurviveRegrouping ==
    [][(last'.op = "setWellMetadata" /\ last'.err = "ok") =>
           \A i \in MetaWellIdx, par \in InheritableParameters :
               wellGetParameter(plate', i, par) = wellGetParameter(plate, i, par)]_vars

\* A replacement after which one well resolves to 2 and another does not.
C14_Witness ==
    /\ metadataReplaced
    /\ Len(plate.groupObjects) > Len(plate.replicateGroups)
    /\ \E i, j \in MetaWellIdx :
           /\ wellGetParameter(plate, i, MetaParameter) = Some(2)
           /\ wellGetParameter(plate, j, MetaParameter) = Some(1)

\* How many wells resolve the parameter to the value v.
resolvedCount(p, par, v) == Cardinality({i \in MetaWellIdx : wellGetParameter(p, i, par) = v})

definedOnEveryWell(p, par) == \A i \in MetaWellIdx : wellGetParameter(p, i, par) # None

\* What the well i would resolve to without a value of its own.
inheritedByWell(p, i, par) == groupGetParameter(p, p.wells[i].replicateGroupParent[1], par)

Reduced(p, par) ==
    /\ \A i \in MetaWellIdx :
           resolvedCount(p, par, wellGetParameter(p, i, par))
               <= resolvedCount(p, par, p.inheritableParameters[par])
    /\ \A g \in listedGroups(p) :
           p.groupObjects[g].inheritableParameters[1][par] # p.inheritableParameters[par]
    /\ \A i \in MetaWellIdx :
           p.wells[i].inheritableParameters[par] # None =>
               p.wells[i].inheritableParameters[par] # inheritedByWell(p, i, par)

\* C15: after the reduction that ends setWellMetadata, for every inheritable parameter
\* that every well resolves to a value, the plate default is a value resolved most
\* often among the wells, no group holds a value equal to the plate default, and no
\* well holds a value equal to the one it would inherit.
C15_ReductionMinimality ==
    metadataReplaced =>
        \A par \in InheritableParameters : definedOnEveryWell(plate, par) => Reduced(plate, par)

\* A reduced plate on which a group and a well still hold values of their own.
C15_Witness ==
    /\ metadataReplaced
    /\ definedOnEveryWell(plate, MetaParameter)
    /\ Reduced(plate, MetaParameter)
    /\ \E i, j \in MetaWellIdx :
           wellGetParameter(plate, i, MetaParameter) # wellGetParameter(plate, j, MetaParameter)
    /\ \/ \E g \in listedGroups(plate) :
              plate.groupObjects[g].inheritableParameters[1][MetaParameter] # None
       \/ \E i \in MetaWellIdx : plate.wells[i].inheritableParameters[MetaParameter] # None

\* The group listing the well i, if there is exactly one.
listingGroup(p, i) ==
    IF Cardinality({g \in listedGroups(p) : InList(p.groupObjects[g].wellIndices[1], i)}) = 1
    THEN Some(CHOOSE g \in listedGroups(p) : InList(p.groupObjects[g].wellIndices[1], i))
    ELSE None

\* The plate q holds what the plate p held when it was written.
SameAsWritten(p, q) ==
    /\ q.plateId = p.plateId
    /\ q.time = p.time
    /\ q.rawOd = p.rawOd
    /\ q.inheritableParameters = p.inheritableParameters
    /\ \A i \in MetaWellIdx :
           /\ q.wells[i].inheritableParameters = p.wells[i].inheritableParameters
           /\ q.wells[i].activeWellIndices = p.wells[i].activeWellIndices
           /\ q.wells[i].backgroundIndex = p.wells[i].backgroundIndex
           /\ q.wells[i].replicateGroupParent = listingGroup(q, i)
    /\ Len(q.replicateGroups) = Len(p.replicateGroups)
    /\ \A k \in 1..Len(p.replicateGroups) :
           LET old == p.groupObjects[p.replicateGroups[k]]
               new == q.groupObjects[q.replicateGroups[k]]
           IN  /\ new.inheritableParameters = old.inheritableParameters
               /\ new.wellIndices = old.wellIndices
               /\ new.activeWellIndices = old.activeWellIndices
               /\ new.backgroundIndex = old.backgroundIndex
    /\ ~q.modified

\* C16: writing the plate with _serialise and constructing a plate from the output
\* succeeds and gives a plate with the same plate id, time axis, raw data, plate
\* parameters, explicit values of wells and groups, child, active and background
\* indices, each well's parent being the group that lists it, and modified = false.
C16_SerialisationRoundTrip ==
    [][last'.op = "load" => (last'.err = "ok" /\ SameAsWritten(plate, plate'))]_vars

----------------------------------------------------------------------------
(* Status messages.  A StatusMessage is a single status with a key or a    *)
(* list of statuses without one.                                           *)

SeverityMessage == 1

SeverityFailed == 2

SeverityWarning == 3

MaxStatuses == 3

\* StatusMessage(key=..., shortmsg=..., severity=..., severity2=...)
SingleStatus(key, shortmsg, sev, sev2) ==
    [key |-> Some(key), short |-> shortmsg, severity |-> sev, severity2 |-> sev2,
     substatuses |-> None]

\* StatusMessage() and StatusMessage(list)
StatusList(subs) ==
    [key |-> None, short |-> "", severity |-> 0, severity2 |-> 0, substatuses |-> Some(subs)]

\* StatusMessage.statusesWithKey
RECURSIVE statusesWithKey(_, _)
RECURSIVE subStatusesWithKey(_, _, _)
statusesWithKey(s, key) ==
    IF s.key = Some(key) THEN <<s>>
    ELSE IF s.substatuses = None THEN << >>
    ELSE subStatusesWithKey(s.substatuses[1], key, 1)

subStatusesWithKey(subs, key, k) ==
    IF k > Len(subs) THEN << >>
    ELSE statusesWithKey(subs[k], key) \o subStatusesWithKey(subs, key, k + 1)

\* StatusMessage.addStatus with a StatusMessage
addStatus(s, status) == [s EXCEPT !.substatuses = Some(s.substatuses[1] \o <<status>>)]

\* StatusMessage.addStatus with a list of StatusMessages
addStatusList(s, lst) == [s EXCEPT !.substatuses = Some(s.substatuses[1] \o lst)]

\* StatusMessage.removeStatusesWithKey: a single status of this key becomes none and
\* is dropped from the list that holds it
RECURSIVE removeStatusesWithKey(_, _)
RECURSIVE removeFromSubstatuses(_, _, _)
removeStatusesWithKey(s, key) ==
    IF s.substatuses = None THEN s
    ELSE [s EXCEPT !.substatuses = Some(removeFromSubstatuses(s.substatuses[1], key, 1))]

removeFromSubstatuses(subs, key, k) ==
    IF k > Len(subs) THEN << >>
    ELSE IF subs[k].key = Some(key) THEN removeFromSubstatuses(subs, key, k + 1)
    ELSE <<removeStatusesWithKey(subs[k], key)>> \o removeFromSubstatuses(subs, key, k + 1)

\* StatusMessage.severity
RECURSIVE severity(_)
RECURSIVE highestSeverity(_, _, _)
severity(s) ==
    IF s.key # None THEN s.severity
    ELSE highestSeverity(s.substatuses[1], SeverityMessage, 1)

highestSeverity(subs, sev, k) ==
    IF k > Len(subs) THEN sev
    ELSE highestSeverity(subs, IF severity(subs[k]) > sev THEN severity(subs[k]) ELSE sev,
                         k + 1)

\* Whether type2status puts the status new in the place of the status it holds.
outranks(new, held) ==
    ~ \/ new.severity <= held.severity
      \/ new.severity = held.severity /\ new.severity2 <= held.severity2

\* StatusMessage.type2status: a function from the message types to single statuses
RECURSIVE type2status(_)
RECURSIVE mergeType2status(_, _, _)
type2status(s) ==
    IF s.key # None THEN [msgtype \in {s.key[1]} |-> s]
    ELSE IF s.substatuses = None THEN [msgtype \in {} |-> s]
    ELSE mergeType2status(s.substatuses[1], [msgtype \in {} |-> s], 1)

mergeType2status(subs, held, k) ==
    IF k > Len(subs) THEN held
    ELSE LET sub == type2status(subs[k])
         IN  mergeType2status(
                 subs,
                 [msgtype \in DOMAIN held \cup DOMAIN sub |->
                     IF msgtype \notin DOMAIN sub THEN held[msgtype]
                     ELSE IF msgtype \in DOMAIN held /\ ~outranks(sub[msgtype], held[msgtype])
                          THEN held[msgtype]
                          ELSE sub[msgtype]],
                 k + 1)

GrowthrateKey == "max. growth rate (exp. fit):"

LagKey == "lag (exp. fit):"

GrowthyieldKey == "growthyield"

noMu == SingleStatus(GrowthrateKey, "growthrate(exp. fit):noMu", SeverityFailed, 0)

maxAtLowerCutoff ==
    SingleStatus(GrowthrateKey, "growthrate(exp. fit):maxAtLowerCutoff", SeverityWarning, 0)

lagLessThanZero == SingleStatus(LagKey, "lag(exp. fit):lessThanZero", SeverityFailed, 0)

noValidIndices == SingleStatus(GrowthyieldKey, "growthyield:noValidIndices", SeverityFailed, 0)

withinStderr(n) ==
    SingleStatus(GrowthyieldKey, "growthyield:within{severity2}Stderr", SeverityWarning, n)

StatusInputs ==
    {noMu, maxAtLowerCutoff, lagLessThanZero, noValidIndices, withinStderr(2), withinStderr(3),
     StatusList(<<maxAtLowerCutoff, lagLessThanZero>>)}

StatusListInputs == {<<noMu>>, <<withinStderr(2), noValidIndices>>}

StatusKeys == {GrowthrateKey, LagKey, GrowthyieldKey}

\* The variables of the plates, which hold no plate here.
noPlate ==
    /\ plateParameters = arrayParameters
    /\ inheritableParameters = [e \in Entities |-> [par \in InheritableParameters |-> None]]
    /\ activeWellIndices = [e \in Entities |-> defaultActiveWellIndices(e)]
    /\ backgroundIndex = [e \in Entities |-> guessedBackgroundIndex(e)]
    /\ memoised = [e \in Entities |-> EmptyMemo]
    /\ modified = FALSE
    /\ plateBackgroundGroupIndices = None
    /\ plateBackgroundWellIndices = None
    /\ last = NoCall
    /\ steps = 0
    /\ plate = None

plateVars == <<fixedGroupingVars, last, steps, plate>>

InitStatus ==
    /\ noPlate
    /\ statuses = StatusList(<< >>)
    /\ growth = None
    /\ cls = None
    /\ well = None

AddStatus(status) ==
    /\ Len(statuses.substatuses[1]) < MaxStatuses
    /\ statuses' = addStatus(statuses, status)
    /\ UNCHANGED <<plateVars, growth, cls, well>>

AddStatusList(lst) ==
    /\ Len(statuses.substatuses[1]) + Len(lst) <= MaxStatuses
    /\ statuses' = addStatusList(statuses, lst)
    /\ UNCHANGED <<plateVars, growth, cls, well>>

RemoveStatusesWithKey(key) ==
    /\ statusesWithKey(statuses, key) # << >>
    /\ statuses' = removeStatusesWithKey(statuses, key)
    /\ UNCHANGED <<plateVars, growth, cls, well>>

NextStatus ==
    \/ \E status \in StatusInputs : AddStatus(status)
    \/ \E lst \in StatusListInputs : AddStatusList(lst)
    \/ \E key \in StatusKeys : RemoveStatusesWithKey(key)

SpecStatus == InitStatus /\ [][NextStatus]_vars

\* The statuses of the key that statuses holds with the severity sev.
heldWith(key, sev) ==
    {k \in 1..Len(statusesWithKey(statuses, key)) : statusesWithKey(statuses, key)[k].severity = sev}

\* C19: when the collected statuses hold a failed status and a warning of one key, the
\* entry of type2status for that key is a failed status and the severity of the whole
\* list is that of the failure.
C19_SeverityOrdering ==
    \A key \in StatusKeys :
        (heldWith(key, SeverityFailed) # {} /\ heldWith(key, SeverityWarning) # {}) =>
            /\ type2status(statuses)[key].severity = SeverityFailed
            /\ severity(statuses) = SeverityFailed

----------------------------------------------------------------------------
(* The growth rate and the growth yield of a replicate group, averaged     *)
(* over its active child wells.  An array element that is nan is None; a   *)
(* mean is the pair <<sum, number of elements>>, a variance the pair       *)
(* <<n * sum of squares - square of the sum, n * (n - 1)>>.                *)

GroupChildren == 3

RECURSIVE unmaskedSum(_, _, _)
unmaskedSum(marr, idcs, k) ==
    IF k > Len(marr) THEN 0
    ELSE (IF idcs[k] THEN 0 ELSE marr[k][1]) + unmaskedSum(marr, idcs, k + 1)

RECURSIVE unmaskedSquares(_, _, _)
unmaskedSquares(marr, idcs, k) ==
    IF k > Len(marr) THEN 0
    ELSE (IF idcs[k] THEN 0 ELSE marr[k][1] * marr[k][1]) + unmaskedSquares(marr, idcs, k + 1)

unmaskedCount(idcs) == Cardinality({k \in 1..Len(idcs) : ~idcs[k]})

\* numpy.isnan of an array
isnan(marr) == [k \in 1..Len(marr) |-> marr[k] = None]

\* The mean over all elements of the array, the masked ones counted as 0.
arrayToMeanVar(marr, idcs) ==
    IF \A k \in 1..Len(idcs) : idcs[k] THEN [mean |-> None, var |-> None]
    ELSE [mean |-> Some(<<unmaskedSum(marr, idcs, 1), Len(marr)>>), var |-> None]

\* numpytools.maskedArrayToMeanVar(marr, idcs, ddof=1)
maskedArrayToMeanVar(marr, idcs) ==
    IF \A k \in 1..Len(idcs) : idcs[k] THEN [mean |-> None, var |-> None]
    ELSE IF \E k \in 1..Len(marr) : ~idcs[k] /\ marr[k] = None
         THEN [mean |-> None, var |-> None]
    ELSE [mean |-> Some(<<unmaskedSum(marr, idcs, 1), unmaskedCount(idcs)>>),
          var |-> IF unmaskedCount(idcs) = 1 THEN None
                  ELSE Some(<<unmaskedCount(idcs) * unmaskedSquares(marr, idcs, 1)
                                  - unmaskedSum(marr, idcs, 1) * unmaskedSum(marr, idcs, 1),
                              unmaskedCount(idcs) * (unmaskedCount(idcs) - 1)>>)]

\* What Replicate._maxGrowthrate and Replicate._growthyield return for a single well.
WellOutcome(mu, od0, maxt, lag, status, growthyield, tgrowthyield, yieldStatus) ==
    [mu |-> mu, od0 |-> od0, maxt |-> maxt, lag |-> lag, status |-> status,
     growthyield |-> growthyield, tgrowthyield |-> tgrowthyield, yieldStatus |-> yieldStatus]

WellOutcomes ==
    {WellOutcome(Some(2), Some(1), Some(3), Some(1), None, Some(5), Some(6), None),
     WellOutcome(Some(4), Some(2), Some(5), Some(3), Some(maxAtLowerCutoff),
                 Some(7), Some(8), Some(withinStderr(2))),
     WellOutcome(Some(6), Some(1), Some(4), None, Some(lagLessThanZero),
                 None, None, Some(noValidIndices)),
     WellOutcome(Some(2), Some(3), Some(4), None,
                 Some(StatusList(<<maxAtLowerCutoff, lagLessThanZero>>)),
                 Some(5), Some(6), None),
     WellOutcome(None, None, None, None, Some(noMu), None, None, Some(noValidIndices))}

GrowthActiveInputs == {<< >>, <<0>>, <<1, 2>>, <<0, 1, 2>>}

\* Replicate.activeChildWells of the group
activeGrowthChildren(g) ==
    [k \in 1..Len(g.activeWellIndices) |-> g.children[g.activeWellIndices[k] + 1]] \o << >>

noGroupStatuses ==
    [allstatuses |-> StatusList(<< >>), statuses |-> StatusList(<< >>),
     alllagstatuses |-> StatusList(<< >>), lagstatuses |-> StatusList(<< >>)]

\* The loop of Replicate._maxGrowthrate over the active child wells
RECURSIVE growthrateStatuses(_, _, _)
growthrateStatuses(tcs, k, acc) ==
    IF k > Len(tcs) THEN acc
    ELSE IF tcs[k].status = None THEN growthrateStatuses(tcs, k + 1, acc)
    ELSE LET status == tcs[k].status[1]
         IN  growthrateStatuses(tcs, k + 1,
                 [allstatuses |-> addStatus(acc.allstatuses, status),
                  alllagstatuses |->
                      addStatusList(acc.alllagstatuses, statusesWithKey(status, LagKey)),
                  statuses |->
                      IF tcs[k].mu # None
                      THEN addStatusList(acc.statuses, statusesWithKey(status, GrowthrateKey))
                      ELSE acc.statuses,
                  lagstatuses |->
                      IF tcs[k].lag # None
                      THEN addStatusList(acc.lagstatuses, statusesWithKey(status, LagKey))
                      ELSE acc.lagstatuses])

undefinedGrowthrate(status) ==
    [mu |-> None, muVar |-> None, od0 |-> None, od0Var |-> None, maxt |-> None,
     maxtVar |-> None, lag |-> None, lagVar |-> None, status |-> status]

\* Replicate._maxGrowthrate of a replicate group
groupMaxGrowthrate(g) ==
    LET tcs == activeGrowthChildren(g)
        mumax == [k \in 1..Len(tcs) |-> tcs[k].mu]
        od0max == [k \in 1..Len(tcs) |-> tcs[k].od0]
        maxt == [k \in 1..Len(tcs) |-> tcs[k].maxt]
        lag == [k \in 1..Len(tcs) |-> tcs[k].lag]
        collected == growthrateStatuses(tcs, 1, noGroupStatuses)
        idcs == isnan(mumax)
        lagidcs == isnan(lag)
        lagmean == maskedArrayToMeanVar(lag, lagidcs)
    IN  IF \A k \in 1..Len(idcs) : idcs[k] THEN undefinedGrowthrate(collected.allstatuses)
        ELSE [mu |-> maskedArrayToMeanVar(mumax, idcs).mean,
              muVar |-> maskedArrayToMeanVar(mumax, idcs).var,
              od0 |-> maskedArrayToMeanVar(od0max, idcs).mean,
              od0Var |-> maskedArrayToMeanVar(od0max, idcs).var,
              maxt |-> maskedArrayToMeanVar(maxt, idcs).mean,
              maxtVar |-> maskedArrayToMeanVar(maxt, idcs).var,
              lag |-> lagmean.mean,
              lagVar |-> lagmean.var,
              status |-> IF lagmean.mean = None
                         THEN addStatus(collected.statuses, collected.alllagstatuses)
                         ELSE addStatus(collected.statuses, collected.lagstatuses)]

noOd == SingleStatus(GrowthyieldKey, "growthyield:noOd", SeverityFailed, 0)

\* The loop of Replicate._growthyield over the active child wells; addStatus also
\* takes a child's status that is None
RECURSIVE growthyieldStatuses(_, _, _)
growthyieldStatuses(tcs, k, acc) ==
    IF k > Len(tcs) THEN acc
    ELSE growthyieldStatuses(tcs, k + 1,
             [acc EXCEPT
                 !.allstatuses =
                     addStatus(acc.allstatuses,
                               IF tcs[k].yieldStatus = None THEN None
                               ELSE tcs[k].yieldStatus[1]),
                 !.statuses =
                     IF tcs[k].yieldStatus # None /\ tcs[k].growthyield # None
                     THEN addStatus(acc.statuses, tcs[k].yieldStatus[1])
                     ELSE acc.statuses])

undefinedGrowthyield(status) ==
    [growthyield |-> None, growthyieldVar |-> None, tgrowthyield |-> None,
     tgrowthyieldVar |-> None, status |-> status]

\* Replicate._growthyield of a replicate group
groupGrowthyield(g) ==
    LET tcs == activeGrowthChildren(g)
        growthyield == [k \in 1..Len(tcs) |-> tcs[k].growthyield]
        tgrowthyield == [k \in 1..Len(tcs) |-> tcs[k].tgrowthyield]
        collected == growthyieldStatuses(tcs, 1, noGroupStatuses)
        idcs == isnan(growthyield)
    IN  IF ~g.od THEN undefinedGrowthyield(noOd)
        ELSE IF \A k \in 1..Len(idcs) : idcs[k] THEN undefinedGrowthyield(collected.allstatuses)
        ELSE [growthyield |-> maskedArrayToMeanVar(growthyield, idcs).mean,
              growthyieldVar |-> maskedArrayToMeanVar(growthyield, idcs).var,
              tgrowthyield |-> maskedArrayToMeanVar(tgrowthyield, idcs).mean,
              tgrowthyieldVar |-> maskedArrayToMeanVar(tgrowthyield, idcs).var,
              status |-> collected.statuses]

\* Nothing has been evaluated since the active children were set.
NotEvaluated == [op |-> "", res |-> undefinedGrowthyield(StatusList(<< >>))]

InitGrowth ==
    /\ noPlate
    /\ statuses = None
    /\ growth \in {[children |-> children,
                    activeWellIndices |-> [k \in 1..GroupChildren |-> k - 1],
                    od |-> hasOd, returned |-> NotEvaluated] :
                       children \in [1..GroupChildren -> WellOutcomes], hasOd \in BOOLEAN}
    /\ cls = None
    /\ well = None

\* Replicate.setActiveChildWellIndices of the group
SetGrowthActiveChildWellIndices(lst) ==
    /\ lst # growth.activeWellIndices
    /\ growth' = [growth EXCEPT !.activeWellIndices = lst, !.returned = NotEvaluated]
    /\ UNCHANGED <<plateVars, statuses, cls, well>>

\* Replicate.maxGrowthrate of the group
GroupMaxGrowthrate ==
    /\ growth' = [growth EXCEPT !.returned = [op |-> "maxGrowthrate",
                                              res |-> groupMaxGrowthrate(growth)]]
    /\ UNCHANGED <<plateVars, statuses, cls, well>>

\* Replicate.growthyield of the group
GroupGrowthyield ==
    /\ growth' = [growth EXCEPT !.returned = [op |-> "growthyield",
                                              res |-> groupGrowthyield(growth)]]
    /\ UNCHANGED <<plateVars, statuses, cls, well>>

NextGrowth ==
    \/ \E lst \in GrowthActiveInputs : SetGrowthActiveChildWellIndices(lst)
    \/ GroupMaxGrowthrate
    \/ GroupGrowthyield

SpecGrowth == InitGrowth /\ [][NextGrowth]_vars

\* The positions of the active list whose child has the quantity q defined.
activeWith(g, q) ==
    {k \in 1..Len(g.activeWellIndices) : g.children[g.activeWellIndices[k] + 1][q] # None}

RECURSIVE sumOver(_, _, _)
sumOver(g, q, ks) ==
    IF ks = {} THEN 0
    ELSE LET k == CHOOSE x \in ks : TRUE
         IN  g.children[g.activeWellIndices[k] + 1][q][1] + sumOver(g, q, ks \ {k})

\* The mean of the quantity q over the active children that have it defined.
meanOver(g, q, ks) == IF ks = {} THEN None ELSE Some(<<sumOver(g, q, ks), Cardinality(ks)>>)

growthrateReturned == growth.returned.op = "maxGrowthrate"

\* C17: the growth rate of a group is defined exactly when an active child has a
\* defined growth rate; mu, OD0 and the time of the maximum are the means over the
\* active children with a defined growth rate, the lag the mean over those with a
\* defined lag, and without such a child everything is undefined.
C17_GroupAggregation ==
    growthrateReturned =>
        LET res == growth.returned.res
            withMu == activeWith(growth, "mu")
        IN  /\ res.mu # None <=> withMu # {}
            /\ res.mu = meanOver(growth, "mu", withMu)
            /\ res.od0 = meanOver(growth, "od0", withMu)
            /\ res.maxt = meanOver(growth, "maxt", withMu)
            /\ res.lag = IF withMu = {} THEN None
                         ELSE meanOver(growth, "lag", activeWith(growth, "lag"))

\* A group with a growth rate from two children and no lag, one active child failing.
C17_Witness ==
    /\ growthrateReturned
    /\ Cardinality(activeWith(growth, "mu")) = 2
    /\ Len(growth.activeWellIndices) = 3
    /\ growth.returned.res.mu # None
    /\ growth.returned.res.lag = None

\* The positions of the returned status list whose status is the status s.
listedIn(status, s) ==
    \E key \in StatusKeys :
        \E k \in 1..Len(statusesWithKey(status, key)) : statusesWithKey(status, key)[k] = s

\* C18: when the group's growth rate (or growth yield) is defined while some active
\* children have none, the returned status holds the failure status of each of those
\* children.
C18_PartialFailureTraceability ==
    /\ (growthrateReturned /\ growth.returned.res.mu # None) =>
           \A k \in 1..Len(growth.activeWellIndices) :
               LET tc == growth.children[growth.activeWellIndices[k] + 1]
               IN  tc.mu = None => listedIn(growth.returned.res.status, tc.status[1])
    /\ (growth.returned.op = "growthyield" /\ growth.returned.res.growthyield # None) =>
           \A k \in 1..Len(growth.activeWellIndices) :
               LET tc == growth.children[growth.activeWellIndices[k] + 1]
               IN  tc.growthyield = None =>
                       listedIn(growth.returned.res.status, tc.yieldStatus[1])

----------------------------------------------------------------------------
(* The viability of a single-well ClsReplicate over the days.  A number is *)
(* a sequence of integers: <<x>> is x, the other forms stand for the terms *)
(* named at their definitions; an array element that is nan is None.       *)

ClsDays == 3

zero == <<0>>

\* math.log(2)/mu
log2Over(mu) == <<1, mu>>

\* math.pow(math.log(2),2)/math.pow(mu,4)*mu_var
log2SquaredOver(mu, mu_var) == <<1, mu, mu_var>>

\* math.pow(2,-deltaT/doublingtime)
pow2(deltaT, doublingtime) == <<2, deltaT>> \o doublingtime

\* The variance of the viability by error propagation
propagated(deltaT, deltaTvar, doublingtime, doublingtimevar) ==
    <<3, deltaT, deltaTvar>> \o doublingtime \o doublingtimevar

\* Replicate.growthrateToDoublingTime
growthrateToDoublingTime(mu, mu_var) ==
    [doublingtime |-> IF mu # None THEN Some(log2Over(mu[1])) ELSE None,
     doublingtimevar |-> IF mu # None /\ mu_var # None
                         THEN Some(log2SquaredOver(mu[1], mu_var[1]))
                         ELSE None]

\* What Replicate.maxGrowthrate returns for the well on one day
DayOutcome(mu, mu_var, lag, lag_var) == [mu |-> mu, mu_var |-> mu_var, lag |-> lag, lag_var |-> lag_var]

DayOutcomes ==
    {DayOutcome(Some(2), None, Some(1), None),
     DayOutcome(Some(1), None, Some(3), None),
     DayOutcome(Some(3), None, Some(0), None),
     DayOutcome(Some(2), None, None, None),
     DayOutcome(None, None, None, None)}

noInitialLag == SingleStatus("viability:noInitialLag", "", SeverityFailed, 0)

\* The body of the loop of ClsReplicate.viability for one day
dayViability(first, tc) ==
    LET doubling == growthrateToDoublingTime(tc.mu, tc.mu_var)
        viability == IF tc.lag # None /\ doubling.doublingtime # None
                     THEN Some(pow2(tc.lag[1] - first.lag[1], doubling.doublingtime[1]))
                     ELSE IF doubling.doublingtime = None THEN Some(zero)
                     ELSE None
        viabilityvar == IF /\ first.lag_var # None
                           /\ tc.lag_var # None
                           /\ doubling.doublingtimevar # None
                        THEN Some(propagated(tc.lag[1] - first.lag[1],
                                             tc.lag_var[1] + first.lag_var[1],
                                             doubling.doublingtime[1],
                                             doubling.doublingtimevar[1]))
                        ELSE None
    IN  [viability |-> viability, viabilityvar |-> viabilityvar]

\* ClsReplicate.viability of a single well
viability(c) ==
    IF c.odReplicates[1].lag = None
    THEN [days |-> None, viability |-> None, viabilityvar |-> None,
          status |-> Some(noInitialLag)]
    ELSE [days |-> Some(c.days),
          viability |-> Some([k \in 1..Len(c.odReplicates) |->
                                 dayViability(c.odReplicates[1], c.odReplicates[k]).viability]),
          viabilityvar |-> Some([k \in 1..Len(c.odReplicates) |->
                                    dayViability(c.odReplicates[1],
                                                 c.odReplicates[k]).viabilityvar]),
          status |-> c.initDiffStatus]

\* The numbers of an array written one after the other
RECURSIVE flattenNumbers(_, _)
flattenNumbers(numbers, k) ==
    IF k > Len(numbers) THEN << >>
    ELSE <<Len(numbers[k])>> \o numbers[k] \o flattenNumbers(numbers, k + 1)

flatten(values, k) == flattenNumbers([j \in 1..Len(values) |-> values[j][1]], k)

\* numpy.trapz(viability, x=days): nan as soon as one summand is nan
trapz(values, days) ==
    IF \E k \in 1..Len(values) : values[k] = None THEN None
    ELSE Some(<<4>> \o days \o flatten(values, 1))

\* A survival integral that takes a series that is not there for a series of zeros.
survivalIntegralOfZeros(c) ==
    [si |-> IF viability(c).viability # None /\ viability(c).days # None
            THEN trapz(viability(c).viability[1], viability(c).days[1])
            ELSE Some(zero),
     sivar |-> None, status |-> None]

\* ClsReplicate.survivalIntegral of a single well
survivalIntegral(c) ==
    [si |-> IF viability(c).viability # None /\ viability(c).days # None
            THEN trapz(viability(c).viability[1], viability(c).days[1])
            ELSE None,
     sivar |-> None, status |-> None]

\* ClsReplicate.activeChildWells: the single wells the group c averages over
childWell(c, i) ==
    [odReplicates |-> c.childOdReplicates[i + 1], days |-> c.days,
     initDiffStatus |-> Some(StatusList(<< >>))]

clsActiveChildWells(c) ==
    [k \in 1..Len(c.activeWellIndices) |-> childWell(c, c.activeWellIndices[k])]

\* The statuses collected from the children: allstatuses takes every status, statuses
\* the ones that come with days.
RECURSIVE collected(_, _, _, _)
collected(returns, withDaysOnly, s, k) ==
    IF k > Len(returns) THEN s
    ELSE collected(returns, withDaysOnly,
                   IF returns[k].status # None /\ (~withDaysOnly \/ returns[k].days # None)
                   THEN addStatus(s, returns[k].status[1])
                   ELSE s,
                   k + 1)

\* The row of the array viability that the return of a child fills: nan throughout
\* when the child returned None
viabilityRow(c, ret) ==
    IF ret.viability = None THEN [k \in 1..Len(c.days) |-> None] ELSE ret.viability[1]

\* numpy.ma.masked_array(...).mean(axis=0) and var(ddof=1, axis=0) of one day, the
\* masked result replaced by nan
RECURSIVE unmaskedOfDay(_, _, _)
unmaskedOfDay(rows, day, k) ==
    IF k > Len(rows) THEN << >>
    ELSE (IF rows[k][day] = None THEN << >> ELSE <<rows[k][day][1]>>)
             \o unmaskedOfDay(rows, day, k + 1)

meanOfDay(rows, day) ==
    IF unmaskedOfDay(rows, day, 1) = << >> THEN None
    ELSE Some(<<5>> \o flattenNumbers(unmaskedOfDay(rows, day, 1), 1))

varOfDay(rows, day) ==
    IF Len(unmaskedOfDay(rows, day, 1)) < 2 THEN None
    ELSE Some(<<6>> \o flattenNumbers(unmaskedOfDay(rows, day, 1), 1))

\* ClsReplicate.viability of a replicate group
groupViability(c) ==
    LET returns == [k \in 1..Len(c.activeWellIndices) |-> viability(clsActiveChildWells(c)[k])]
        rows == [k \in 1..Len(returns) |-> viabilityRow(c, returns[k])]
    IN  IF \A k \in 1..Len(rows) : \A day \in 1..Len(c.days) : rows[k][day] = None
        THEN [days |-> None, viability |-> None, viabilityvar |-> None,
              status |-> Some(addStatus(collected(returns, FALSE, StatusList(<< >>), 1),
                                        c.initDiffStatus[1]))]
        ELSE [days |-> Some(c.days),
              viability |-> Some([day \in 1..Len(c.days) |-> meanOfDay(rows, day)]),
              viabilityvar |-> Some([day \in 1..Len(c.days) |-> varOfDay(rows, day)]),
              status |-> Some(addStatus(collected(returns, TRUE, StatusList(<< >>), 1),
                                        c.initDiffStatus[1]))]

\* ClsReplicate.survivalIntegral of a replicate group
groupSurvivalIntegral(c) ==
    LET si == [k \in 1..Len(c.activeWellIndices) |->
                  survivalIntegral(clsActiveChildWells(c)[k]).si]
    IN  IF \A k \in 1..Len(si) : si[k] = None
        THEN [si |-> None, sivar |-> None, status |-> Some(addStatus(StatusList(<< >>), c.initDiffStatus[1]))]
        ELSE [si |-> meanOfDay([k \in 1..Len(si) |-> <<si[k]>>], 1),
              sivar |-> varOfDay([k \in 1..Len(si) |-> <<si[k]>>], 1),
              status |-> Some(addStatus(StatusList(<< >>), c.initDiffStatus[1]))]

\* The series of the second child well of the group
SiblingInputs ==
    {[k \in 1..ClsDays |-> DayOutcome(Some(2), None, Some(1), None)],
     [k \in 1..ClsDays |-> DayOutcome(Some(2), None, None, None)],
     [k \in 1..ClsDays |-> DayOutcome(None, None, None, None)]}

ClsActiveInputs == {<< >>, <<0>>, <<1>>, <<0, 1>>}

NotCalled == [survivalIntegral |-> None, groupViability |-> None, groupSurvivalIntegral |-> None]

InitCls ==
    /\ noPlate
    /\ statuses = None
    /\ growth = None
    /\ well = None
    /\ cls \in {[odReplicates |-> odReplicates, days |-> [k \in 1..ClsDays |-> k - 1],
                 initDiffStatus |-> Some(StatusList(<< >>)), returned |-> None,
                 childOdReplicates |-> <<odReplicates, sibling>>,
                 activeWellIndices |-> active, calls |-> NotCalled] :
                    odReplicates \in [1..ClsDays -> DayOutcomes],
                    sibling \in SiblingInputs, active \in ClsActiveInputs}

\* ClsReplicate.viability
Viability ==
    /\ cls.returned = None
    /\ cls' = [cls EXCEPT !.returned = Some(viability(cls))]
    /\ UNCHANGED <<plateVars, statuses, growth, well>>

\* ClsReplicate.survivalIntegral of the single well
SurvivalIntegral ==
    /\ cls.calls.survivalIntegral = None
    /\ cls' = [cls EXCEPT !.calls.survivalIntegral = Some(survivalIntegral(cls))]
    /\ UNCHANGED <<plateVars, statuses, growth, well>>

\* ClsReplicate.viability of the replicate group
GroupViability ==
    /\ cls.calls.groupViability = None
    /\ cls' = [cls EXCEPT !.calls.groupViability = Some(groupViability(cls))]
    /\ UNCHANGED <<plateVars, statuses, growth, well>>

\* ClsReplicate.survivalIntegral of the replicate group
GroupSurvivalIntegral ==
    /\ cls.calls.groupSurvivalIntegral = None
    /\ cls' = [cls EXCEPT !.calls.groupSurvivalIntegral = Some(groupSurvivalIntegral(cls))]
    /\ UNCHANGED <<plateVars, statuses, growth, well>>

NextCls ==
    \/ Viability
    \/ SurvivalIntegral
    \/ GroupViability
    \/ GroupSurvivalIntegral

SpecCls == InitCls /\ [][NextCls]_vars

\* C20: when the lag of day 0 is defined, every day without a growth rate has the
\* viability 0 and the variance of the viability 0.
C20_NoGrowthMeansDead ==
    (cls.returned # None /\ cls.odReplicates[1].lag # None) =>
        \A k \in 1..Len(cls.odReplicates) :
            cls.odReplicates[k].mu = None =>
                /\ cls.returned[1].viability[1][k] = Some(zero)
                /\ cls.returned[1].viabilityvar[1][k] = Some(zero)

----------------------------------------------------------------------------
(* Plate-wide parameters, seen from the wells and groups                   *)

\* A value was given for hdCorrectionLinear in a call of _setExplicitParameter on a group.
setOnGroup ==
    /\ last.op = "setExplicitParameter"
    /\ last.ent \in Groups
    /\ last.par = "hdCorrectionLinear"
    /\ last.arg # None

failedActivation(l) ==
    /\ l.op \in {"setActiveChildWellIndices", "activateChildWellIndex"}
    /\ l.err # "ok"

\* C29: a setActiveChildWellIndices or activateChildWellIndex that raises leaves the
\* target's active child list, every memoised entry and the modified flag as they were,
\* and a single well's active list stays the one it was constructed with.
C29_FailedActivationChangesNothing ==
    /\ \A w \in Wells : activeWellIndices[w] = defaultActiveWellIndices(w)
    /\ [][failedActivation(last') =>
              /\ activeWellIndices' = activeWellIndices
              /\ memoised' = memoised
              /\ modified' = modified]_vars

\* What the metadata of the plate p determines: the wells' sample ids and conditions, the
\* listed replicate groups with their children, the explicit parameters at the three levels
\* and the background references.
sampleLayout(p) ==
    [wells |-> [i \in MetaWellIdx |->
                   [sampleid |-> p.wells[i].sampleid,
                    condition |-> p.wells[i].condition,
                    inheritableParameters |-> p.wells[i].inheritableParameters,
                    backgroundIndex |-> p.wells[i].backgroundIndex]],
     groups |-> [k \in 1..Len(p.replicateGroups) |->
                    [sampleid |-> p.groupObjects[p.replicateGroups[k]].sampleid,
                     condition |-> p.groupObjects[p.replicateGroups[k]].condition,
                     wellIndices |-> p.groupObjects[p.replicateGroups[k]].wellIndices,
                     inheritableParameters |->
                         p.groupObjects[p.replicateGroups[k]].inheritableParameters,
                     backgroundIndex |-> p.groupObjects[p.replicateGroups[k]].backgroundIndex]],
     inheritableParameters |-> p.inheritableParameters]

\* C30: a setWellMetadata that raises leaves the wells' sample ids and conditions, the
\* replicate groups, every explicit parameter at well, group and plate level and every
\* background reference as they were before the call.
C30_MetadataAllOrNothing ==
    [][(last'.op = "setWellMetadata" /\ last'.err # "ok") =>
           sampleLayout(plate') = sampleLayout(plate)]_vars

\* The lag of day 0 of the single well c cannot be extracted.
noLagOnDay0(c) == c.odReplicates[1].lag = None

\* Every active child of the replicate group c is without the lag of day 0.
everyActiveChildWithoutLag(c) ==
    \A k \in 1..Len(c.activeWellIndices) : noLagOnDay0(clsActiveChildWells(c)[k])

\* C21: when the lag of the day-0 replicate cannot be extracted, viability() returns no
\* days, no values and a failed status, and survivalIntegral() returns no value; a
\* replicate group whose active children are all without that lag returns no days and
\* no values from viability() and no value from survivalIntegral().
C21_UndefinedViability ==
    /\ (noLagOnDay0(cls) /\ cls.returned # None) =>
           /\ cls.returned[1].days = None
           /\ cls.returned[1].viability = None
           /\ cls.returned[1].viabilityvar = None
           /\ cls.returned[1].status # None
           /\ severity(cls.returned[1].status[1]) = SeverityFailed
    /\ (noLagOnDay0(cls) /\ cls.calls.survivalIntegral # None) =>
           cls.calls.survivalIntegral[1].si = None
    /\ (everyActiveChildWithoutLag(cls) /\ cls.calls.groupViability # None) =>
           /\ cls.calls.groupViability[1].days = None
           /\ cls.calls.groupViability[1].viability = None
           /\ cls.calls.groupViability[1].viabilityvar = None
    /\ (everyActiveChildWithoutLag(cls) /\ cls.calls.groupSurvivalIntegral # None) =>
           /\ cls.calls.groupSurvivalIntegral[1].si = None
           /\ cls.calls.groupSurvivalIntegral[1].sivar = None

\* The well and the group of its two active children, none with a lag on day 0, after
\* the four calls; the first child has a growth rate on day 0.
C21_Witness ==
    /\ cls.activeWellIndices = <<0, 1>>
    /\ everyActiveChildWithoutLag(cls)
    /\ cls.odReplicates[1].mu # None
    /\ cls.returned # None /\ cls.returned[1].status = Some(noInitialLag)
    /\ cls.calls.survivalIntegral # None /\ cls.calls.survivalIntegral[1].si = None
    /\ cls.calls.groupViability # None /\ cls.calls.groupViability[1].viability = None
    /\ cls.calls.groupSurvivalIntegral # None
    /\ cls.calls.groupSurvivalIntegral[1].si = None

SmoothingAccessors == {"smoothedOd", "logOdSmoothed"}

\* C22: smoothedOd() and logOdSmoothed() never raise; when the spline fit fails with an
\* exception the result is undefined (None), and a second call without a parameter change
\* gives the same undefined result.
C22_SmoothingNeverRaises ==
    \A e \in Entities : \A q \in SmoothingAccessors :
        /\ Call(memoised, e, q).err = "ok"
        /\ (splineRaises(Len(time), getParameter(e, "smoothingK")) /\ rawOd(memoised, e).val # NoneVal)
               => Call(memoised, e, q).val = NoneVal
        /\ Call(memoised, e, q).val = NoneVal =>
               /\ Call(Call(memoised, e, q).m, e, q).err = "ok"
               /\ Call(Call(memoised, e, q).m, e, q).val = NoneVal

----------------------------------------------------------------------------
(* The maximal growth rate of a single well.  The arrays mu, od0 and logod  *)
(* are what the estimator hands to the selection: an undefined growth rate  *)
(* and a nan of log(OD) are None; od0 holds, for a positive OD, its         *)
(* logarithm, so that od0*exp(-mu*t) is positive exactly when od0 is and    *)
(* has the logarithm log(od0)-mu*t.  The time points are 0, 1, 2, ...       *)

RatePoints == 3

Methods == {"expfit", "nonlogsmoothed"}

methodtxt(method) == IF method = "expfit" THEN "exp. fit" ELSE "smoothed"

\* t: self.time without the half windows (expfit), self.time[:-1] (nonlogsmoothed)
rateTime(method) == [k \in 1..RatePoints |-> IF method = "expfit" THEN k ELSE k - 1]

\* The time od0 is converted from: self.time[:-slidingWindowSize] (expfit), t otherwise
od0Time(method) == [k \in 1..RatePoints |-> k - 1]

rateStatus(method, name, sev) ==
    SingleStatus("max. growth rate (" \o methodtxt(method) \o "):",
                 "growthrate(" \o methodtxt(method) \o "):" \o name, sev, 0)

lagStatus(method) ==
    SingleStatus("lag (" \o methodtxt(method) \o "):",
                 "lag(" \o methodtxt(method) \o "):lessThanZero", SeverityFailed, 0)

\* numpy.isfinite(mu)
fidcs(w) == [k \in 1..RatePoints |-> w.mu[k] # None]

\* notNanAndGreaterEqual(logod, self.logOdCutoff())
cidcs(w) == [k \in 1..RatePoints |-> w.logod[k] # None /\ w.logod[k][1] >= w.logOdCutoff[1]]

lidcs(w) == [k \in 1..RatePoints |-> rateTime(w.method)[k] >= w.maxGrowthLowerTimeCutoff[1]]

uidcs(w) == [k \in 1..RatePoints |-> rateTime(w.method)[k] <= w.maxGrowthUpperTimeCutoff[1]]

\* idcs before the time cutoffs
aboveLogOdCutoff(w) ==
    [k \in 1..RatePoints |-> fidcs(w)[k] /\ (w.logOdCutoff # None => cidcs(w)[k])]

\* A selection that leaves the time cutoffs out of the masks.
withoutTimeCutoffs(w) == [k \in 1..RatePoints |-> fidcs(w)[k] /\ (w.logOdCutoff # None => cidcs(w)[k])]

\* idcs after the time cutoffs
withinLimits(w) ==
    [k \in 1..RatePoints |->
        /\ aboveLogOdCutoff(w)[k]
        /\ (w.maxGrowthLowerTimeCutoff # None => lidcs(w)[k])
        /\ (w.maxGrowthUpperTimeCutoff # None => uidcs(w)[k])]

\* idcs.nonzero()[0][numpy.argmax(mu[idcs])]: the first of the largest
globalmaxidx(w) ==
    CHOOSE k \in 1..RatePoints :
        /\ withinLimits(w)[k]
        /\ \A j \in 1..RatePoints : withinLimits(w)[j] => w.mu[j][1] <= w.mu[k][1]
        /\ \A j \in 1..(k - 1) : withinLimits(w)[j] => w.mu[j][1] < w.mu[k][1]

\* What _maxGrowthrate returns: a number is None or <<x>>, od0 is held by its logarithm,
\* the lag by numerator and denominator.
rateReturn(mu, od0, maxt, lag, status) ==
    [mu |-> mu, od0 |-> od0, maxt |-> maxt, lag |-> lag, status |-> status]

rejected(status) == rateReturn(None, None, None, None, Some(status))

\* A selection in which the flag tolerates the upper side as it does the lower side.
upperSideTolerated(w, g) ==
    IF w.allowMaxGrowthrateAtLowerCutoff THEN None
    ELSE IF g = RatePoints \/ ~fidcs(w)[g + 1] THEN Some("maxAtUpperCutoffRemoved")
    ELSE IF w.maxGrowthUpperTimeCutoff # None /\ ~uidcs(w)[g + 1]
         THEN Some("maxAtUpperCutoffRemoved")
    ELSE IF w.logOdCutoff # None /\ ~cidcs(w)[g + 1] THEN Some("maxAtLogOdCutoffRemoved")
    ELSE None

\* A selection that does not look whether the maximum is the first defined growth rate.
lowerSideWithoutFirst(w, g) ==
    IF g = 1 \/ ~fidcs(w)[g - 1] THEN None
    ELSE IF w.maxGrowthLowerTimeCutoff # None /\ ~lidcs(w)[g - 1] THEN Some("maxAtLowerCutoff")
    ELSE IF w.logOdCutoff # None /\ ~cidcs(w)[g - 1] THEN Some("maxAtLogOdCutoff")
    ELSE None

\* The maximum is next to a point that the lower side cuts off: the name of the case
lowerSide(w, g) ==
    IF g = 1 \/ ~fidcs(w)[g - 1] THEN Some("maxAtFirstNonNan")
    ELSE IF w.maxGrowthLowerTimeCutoff # None /\ ~lidcs(w)[g - 1] THEN Some("maxAtLowerCutoff")
    ELSE IF w.logOdCutoff # None /\ ~cidcs(w)[g - 1] THEN Some("maxAtLogOdCutoff")
    ELSE None

\* The maximum is next to a point that the upper side cuts off: the name of the case
upperSide(w, g) ==
    IF g = RatePoints \/ ~fidcs(w)[g + 1] THEN Some("maxAtUpperCutoffRemoved")
    ELSE IF w.maxGrowthUpperTimeCutoff # None /\ ~uidcs(w)[g + 1]
         THEN Some("maxAtUpperCutoffRemoved")
    ELSE IF w.logOdCutoff # None /\ ~cidcs(w)[g + 1] THEN Some("maxAtLogOdCutoffRemoved")
    ELSE None

\* log(od0max) = log(od0) - mumax*t0
logOd0max(w, g) == w.od0[g][1] - w.mu[g][1] * od0Time(w.method)[g]

\* The end of _maxGrowthrate: the lag and the combined status
withLag(w, g, status) ==
    LET num == w.lagAtLogOdEquals[1] - logOd0max(w, g)
        negative == w.lagAtLogOdEquals # None /\ num < 0
        lag == IF w.lagAtLogOdEquals = None \/ negative THEN None
               ELSE Some(<<num, w.mu[g][1]>>)
        combined == IF status # None /\ negative
                    THEN Some(StatusList(<<status[1], lagStatus(w.method)>>))
                    ELSE IF negative THEN Some(lagStatus(w.method))
                    ELSE status
    IN  rateReturn(w.mu[g], Some(<<logOd0max(w, g)>>), Some(rateTime(w.method)[g]), lag, combined)

\* Replicate._maxGrowthrate of a single well
maxGrowthrateOfWell(w) ==
    IF \A k \in 1..RatePoints : ~aboveLogOdCutoff(w)[k]
    THEN rejected(rateStatus(w.method, "noMu", SeverityFailed))
    ELSE IF \A k \in 1..RatePoints : ~withinLimits(w)[k]
    THEN rejected(rateStatus(w.method, "noMuWithinLimits", SeverityFailed))
    ELSE LET g == globalmaxidx(w)
             maxt == rateTime(w.method)[g]
         IN  IF w.mu[g][1] <= 0
             THEN rejected(rateStatus(w.method, "mumaxLt0", SeverityFailed))
             ELSE IF w.od0[g] = None
             THEN rejected(rateStatus(w.method, "od0maxLt0", SeverityFailed))
             ELSE IF /\ w.lagAtLogOdEquals # None
                     /\ w.mu[g][1] * maxt + logOd0max(w, g) < w.lagAtLogOdEquals[1]
             THEN rejected(rateStatus(w.method, "lagGtValAtMumax", SeverityFailed))
             ELSE IF lowerSide(w, g) # None /\ ~w.allowMaxGrowthrateAtLowerCutoff
             THEN rejected(rateStatus(w.method, lowerSide(w, g)[1] \o "Removed",
                                      SeverityFailed))
             ELSE IF upperSide(w, g) # None
             THEN rejected(rateStatus(w.method, upperSide(w, g)[1], SeverityFailed))
             ELSE withLag(w, g,
                          IF lowerSide(w, g) = None THEN None
                          ELSE Some(rateStatus(w.method, lowerSide(w, g)[1],
                                               SeverityWarning)))

MuInputs == {None, Some(0 - 1), Some(1), Some(2)}

\* od0 by its logarithm along the points: positive throughout, larger at the first two
\* points, not positive at the second point
Od0Inputs ==
    {[k \in 1..RatePoints |-> Some(0)],
     [k \in 1..RatePoints |-> IF k <= 2 THEN Some(k) ELSE Some(0)],
     [k \in 1..RatePoints |-> IF k = 2 THEN None ELSE Some(0)]}

\* log(OD) along the points: above the cutoff throughout, below it at the last point,
\* nan at the first point
LogOdInputs ==
    {[k \in 1..RatePoints |-> Some(2)],
     [k \in 1..RatePoints |-> IF k = RatePoints THEN Some(0) ELSE Some(2)],
     [k \in 1..RatePoints |-> IF k = 1 THEN None ELSE Some(2)]}

CutoffInputs == {None, Some(1)}

TimeCutoffInputs == {None, Some(1), Some(2)}

UpperCutoffInputs == {None, Some(2)}

LagAtInputs == {None, Some(0), Some(3)}

InitRate ==
    /\ noPlate
    /\ statuses = None
    /\ growth = None
    /\ cls = None
    /\ well \in {[method |-> method, mu |-> mu, od0 |-> od0, logod |-> logod,
                  logOdCutoff |-> logOdCutoff,
                  maxGrowthLowerTimeCutoff |-> lowerCutoff,
                  maxGrowthUpperTimeCutoff |-> upperCutoff,
                  allowMaxGrowthrateAtLowerCutoff |-> allow,
                  lagAtLogOdEquals |-> lagAt, returned |-> None] :
                     method \in Methods, mu \in [1..RatePoints -> MuInputs],
                     od0 \in Od0Inputs, logod \in LogOdInputs,
                     logOdCutoff \in CutoffInputs, lowerCutoff \in TimeCutoffInputs,
                     upperCutoff \in UpperCutoffInputs, allow \in BOOLEAN, lagAt \in LagAtInputs}

\* Replicate.maxGrowthrate and Replicate.maxGrowthrateFromLogOdDerivative of the well
MaxGrowthrateOfWell ==
    /\ well.returned = None
    /\ well' = [well EXCEPT !.returned = Some(maxGrowthrateOfWell(well))]
    /\ UNCHANGED <<plateVars, statuses, growth, cls>>

NextRate == MaxGrowthrateOfWell

SpecRate == InitRate /\ [][NextRate]_vars

\* The points of the well w that pass the masks of the growth-rate search.
passesMasks(w, k) ==
    /\ w.mu[k] # None
    /\ w.logOdCutoff # None => (w.logod[k] # None /\ w.logod[k][1] >= w.logOdCutoff[1])
    /\ w.maxGrowthLowerTimeCutoff # None =>
           rateTime(w.method)[k] >= w.maxGrowthLowerTimeCutoff[1]
    /\ w.maxGrowthUpperTimeCutoff # None =>
           rateTime(w.method)[k] <= w.maxGrowthUpperTimeCutoff[1]

\* The point of the well w the returned maximum r was taken from.
takenFrom(w, r, k) ==
    /\ passesMasks(w, k)
    /\ r.mu = w.mu[k]
    /\ r.maxt = Some(rateTime(w.method)[k])

\* C24: a defined well-level growth rate has mu_max > 0 and OD0 > 0, was taken from a
\* point within the time cutoffs and at or above the log-OD cutoff where these are set,
\* is the largest growth rate among the points passing the masks, and comes with a lag
\* that is undefined or not negative; otherwise mu, OD0, the time of the maximum and
\* the lag are all undefined and the status has severity failed.
C24_GrowthratePostcondition ==
    well.returned # None =>
        IF well.returned[1].mu # None
        THEN /\ well.returned[1].mu[1] > 0
             /\ well.returned[1].od0 # None
             /\ \E k \in 1..RatePoints :
                    /\ takenFrom(well, well.returned[1], k)
                    /\ well.od0[k] # None
             /\ \A j \in 1..RatePoints :
                    passesMasks(well, j) => well.mu[j][1] <= well.returned[1].mu[1]
             /\ well.returned[1].lag # None =>
                    /\ well.returned[1].lag[1][1] >= 0
                    /\ well.returned[1].lag[1][2] > 0
        ELSE /\ well.returned[1].od0 = None
             /\ well.returned[1].maxt = None
             /\ well.returned[1].lag = None
             /\ well.returned[1].status # None
             /\ severity(well.returned[1].status[1]) = SeverityFailed

\* A growth rate returned with a lag for a well with both time cutoffs and the log-OD
\* cutoff set, while a larger growth rate lies outside the cutoffs.
C24_Witness ==
    /\ well.returned # None
    /\ well.returned[1].mu # None
    /\ well.returned[1].lag # None
    /\ well.logOdCutoff # None
    /\ well.maxGrowthLowerTimeCutoff # None
    /\ well.maxGrowthUpperTimeCutoff # None
    /\ \E j \in 1..RatePoints :
           /\ ~passesMasks(well, j)
           /\ well.mu[j] # None
           /\ well.mu[j][1] > well.returned[1].mu[1]

\* The point with the maximal growth rate among the points passing the masks, the first
\* of them when several share it.
isMaximum(w, k) ==
    /\ passesMasks(w, k)
    /\ \A j \in 1..RatePoints : passesMasks(w, j) => w.mu[j][1] <= w.mu[k][1]
    /\ \A j \in 1..(k - 1) : passesMasks(w, j) => w.mu[j][1] < w.mu[k][1]

belowLogOdCutoff(w, k) ==
    w.logOdCutoff # None /\ ~(w.logod[k] # None /\ w.logod[k][1] >= w.logOdCutoff[1])

\* The maximum k is the first valid index: there is no defined growth rate before it.
atFirstValidIndex(w, k) == k = 1 \/ w.mu[k - 1] = None

\* The maximum k sits at the lower time cutoff or at the log-OD cutoff on its lower side.
atLowerCutoff(w, k) ==
    /\ ~atFirstValidIndex(w, k)
    /\ \/ /\ w.maxGrowthLowerTimeCutoff # None
          /\ rateTime(w.method)[k - 1] < w.maxGrowthLowerTimeCutoff[1]
       \/ belowLogOdCutoff(w, k - 1)

\* The maximum k is the last index, has no defined growth rate after it, or sits at the
\* upper time cutoff or at the log-OD cutoff on its upper side.
atUpperSide(w, k) ==
    \/ k = RatePoints
    \/ w.mu[k + 1] = None
    \/ /\ w.maxGrowthUpperTimeCutoff # None
       /\ rateTime(w.method)[k + 1] > w.maxGrowthUpperTimeCutoff[1]
    \/ belowLogOdCutoff(w, k + 1)

\* Nothing but its place rejects the maximum k: the growth rate and OD0 are positive
\* and the OD at the lag does not exceed the OD at the maximum.
soundMaximum(w, k) ==
    /\ w.mu[k][1] > 0
    /\ w.od0[k] # None
    /\ w.lagAtLogOdEquals # None =>
           w.mu[k][1] * rateTime(w.method)[k] + w.od0[k][1] - w.mu[k][1] * (k - 1)
               >= w.lagAtLogOdEquals[1]

isRejected(r) ==
    /\ r.mu = None
    /\ r.status # None
    /\ severity(r.status[1]) = SeverityFailed

\* The single statuses of a returned status
singles(s) ==
    IF s.substatuses = None THEN {s}
    ELSE {s.substatuses[1][i] : i \in 1..Len(s.substatuses[1])}

acceptedWithWarning(r) ==
    /\ r.mu # None
    /\ r.status # None
    /\ \E s \in singles(r.status[1]) : s.severity = SeverityWarning

\* C25: a maximum at the lower time cutoff or at the log-OD cutoff on its lower side is
\* rejected when allowMaxGrowthrateAtLowerCutoff is false and accepted with a warning
\* status when it is true; a maximum at the last index, without a defined growth rate at
\* the next index, at the upper time cutoff or at the log-OD cutoff on its upper side is
\* rejected whatever the flag.
C25_CutoffAsymmetry ==
    well.returned # None =>
        \A k \in 1..RatePoints :
            isMaximum(well, k) =>
                /\ (atLowerCutoff(well, k) /\ ~well.allowMaxGrowthrateAtLowerCutoff)
                       => isRejected(well.returned[1])
                /\ (/\ atLowerCutoff(well, k)
                    /\ well.allowMaxGrowthrateAtLowerCutoff
                    /\ soundMaximum(well, k)
                    /\ ~atUpperSide(well, k))
                       => acceptedWithWarning(well.returned[1])
                /\ atUpperSide(well, k) => isRejected(well.returned[1])

\* A maximum at the upper time cutoff of a well whose flag is set, rejected; the maximum
\* is sound and at neither lower cutoff.
C25_Witness ==
    /\ well.returned # None
    /\ well.allowMaxGrowthrateAtLowerCutoff
    /\ isRejected(well.returned[1])
    /\ \E k \in 1..(RatePoints - 1) :
           /\ isMaximum(well, k)
           /\ soundMaximum(well, k)
           /\ ~atFirstValidIndex(well, k)
           /\ ~atLowerCutoff(well, k)
           /\ well.mu[k + 1] # None
           /\ well.maxGrowthUpperTimeCutoff # None
           /\ rateTime(well.method)[k + 1] > well.maxGrowthUpperTimeCutoff[1]

\* C26 as stated: a maximum at the first valid index is rejected as undefined whatever
\* the value of allowMaxGrowthrateAtLowerCutoff.
C26_FirstValidIndexAlwaysFatal ==
    well.returned # None =>
        \A k \in 1..RatePoints :
            (isMaximum(well, k) /\ atFirstValidIndex(well, k)) => isRejected(well.returned[1])

\* C26: a maximum at the first valid index is treated as one at the lower cutoff: it is
\* rejected when allowMaxGrowthrateAtLowerCutoff is false, and accepted with the warning
\* maxAtFirstNonNan when the flag is true and nothing else rejects the maximum.
C26_FirstValidIndexFollowsFlag ==
    well.returned # None =>
        \A k \in 1..RatePoints :
            (isMaximum(well, k) /\ atFirstValidIndex(well, k)) =>
                /\ ~well.allowMaxGrowthrateAtLowerCutoff => isRejected(well.returned[1])
                /\ (/\ well.allowMaxGrowthrateAtLowerCutoff
                    /\ soundMaximum(well, k)
                    /\ ~atUpperSide(well, k))
                       => /\ well.returned[1].mu = well.mu[k]
                          /\ \E s \in singles(well.returned[1].status[1]) :
                                 s = rateStatus(well.method, "maxAtFirstNonNan",
                                                SeverityWarning)

\* The maximum at index 0 of a well whose flag is set, returned with the warning.
C26_Witness ==
    /\ well.returned # None
    /\ well.allowMaxGrowthrateAtLowerCutoff
    /\ isMaximum(well, 1)
    /\ well.returned[1].mu = well.mu[1]
    /\ well.returned[1].status =
           Some(rateStatus(well.method, "maxAtFirstNonNan", SeverityWarning))

----------------------------------------------------------------------------
(* The growth yield of a single well.  The arrays mean, slope and           *)
(* slopeStdErr hold one entry per sliding window of the whole series, the   *)
(* window i starting at the time index i; _growthyield looks at the windows *)
(* from the index of the maximal slope on.  The time points are 0, 1, 2, ...*)

YieldTimePoints == 6

YieldWindowSize == 3

yieldTime == [k \in 1..YieldTimePoints |-> k - 1]

\* The start indices of the sliding windows: range(0, od.size - slidingWindowSize)
yieldWindows == 0..(YieldTimePoints - YieldWindowSize - 1)

\* int(math.floor(slidingWindowSize/2.))
tmb == YieldWindowSize \div 2

\* The windows _windowSlope and _windowMeanVar return for fromidx=timemaxIdx
windowsFrom(w) == {i \in yieldWindows : i >= w.timemaxIdx}

\* validIndices for n standard errors
validIndices(w, n) ==
    {i \in windowsFrom(w) :
        /\ w.mean[i + 1] > w.odAtMaxLinSlope
        /\ w.slope[i + 1] + n * w.slopeStdErr[i + 1] >= 0
        /\ w.slope[i + 1] - n * w.slopeStdErr[i + 1] < 0}

yieldStatus(name) == SingleStatus(GrowthyieldKey, "growthyield:" \o name, SeverityFailed, 0)

yieldReturn(growthyield, tgrowthyield, status) ==
    [growthyield |-> growthyield, tgrowthyield |-> tgrowthyield, status |-> status]

\* The loop of _growthyield: entered with n, the valid windows and the status so far
RECURSIVE relaxed(_, _, _, _)
relaxed(w, n, valid, status) ==
    IF valid # {} \/ n > w.allowNStderrDeviations THEN [valid |-> valid, status |-> status]
    ELSE relaxed(w, n + 1, validIndices(w, n), Some(withinStderr(n)))

\* A search that tries the largest permitted number of standard errors at once.
yieldSearchAtMaximum(w) ==
    IF validIndices(w, 1) # {} \/ 2 > w.allowNStderrDeviations
    THEN [valid |-> validIndices(w, 1), status |-> None]
    ELSE [valid |-> validIndices(w, w.allowNStderrDeviations),
          status |-> Some(withinStderr(w.allowNStderrDeviations))]

\* The search of _growthyield: one standard error, then the loop from n=2
yieldSearch(w) == relaxed(w, 2, validIndices(w, 1), None)

\* numpy.argmax(mean[validIndices]): the first window with the largest mean
yieldidx(w, valid) ==
    CHOOSE i \in valid :
        /\ \A j \in valid : w.mean[j + 1] <= w.mean[i + 1]
        /\ \A j \in valid : j < i => w.mean[j + 1] < w.mean[i + 1]

\* A time of the yield read at the start of the window.
timeAtWindowStart(w, i) == yieldTime[i + 1]

\* self.time[tmb+timemaxIdx:-tmt][validIndices][yieldidx]
timeOfWindow(w, i) == yieldTime[tmb + i + 1]

\* Replicate._growthyield of a single well
growthyieldOfWell(w) ==
    IF ~w.hasOd THEN yieldReturn(None, None, Some(yieldStatus("noOd")))
    ELSE IF ~w.hasSlopemax THEN yieldReturn(None, None, Some(yieldStatus("noSlopemax")))
    ELSE IF w.timemaxIdx >= YieldTimePoints - YieldWindowSize
    THEN yieldReturn(None, None, Some(yieldStatus("slopemaxUnusable")))
    ELSE LET search == yieldSearch(w)
         IN  IF search.valid = {}
             THEN yieldReturn(None, None, Some(yieldStatus("noValidIndices")))
             ELSE IF w.mean[yieldidx(w, search.valid) + 1] < 0
             THEN yieldReturn(None, None, Some(yieldStatus("negativeYield")))
             ELSE yieldReturn(Some(w.mean[yieldidx(w, search.valid) + 1]),
                              Some(timeOfWindow(w, yieldidx(w, search.valid))),
                              search.status)

\* The windowed mean OD and the windowed slope; every standard error is 1, and the OD at
\* the maximal slope, which odSlopemaxIntercept returns only when positive, is 2
MeanInputs == {1, 3, 4, 5}

SlopeInputs == {0, 1, 2, 5}

AllowNInputs == {0, 1, 2, 3}

\* What precedes the search: no OD, no maximal slope, or a maximal slope
YieldStages == {<<FALSE, FALSE>>, <<TRUE, FALSE>>, <<TRUE, TRUE>>}

InitYield ==
    /\ noPlate
    /\ statuses = None
    /\ growth = None
    /\ cls = None
    /\ well \in {[hasOd |-> stage[1], hasSlopemax |-> stage[2], timemaxIdx |-> timemaxIdx,
                  odAtMaxLinSlope |-> 2,
                  mean |-> mean, slope |-> slope,
                  slopeStdErr |-> [i \in 1..Cardinality(yieldWindows) |-> 1],
                  allowNStderrDeviations |-> allowN, returned |-> None] :
                     stage \in YieldStages,
                     timemaxIdx \in 0..(YieldTimePoints - YieldWindowSize),
                     mean \in [1..Cardinality(yieldWindows) -> MeanInputs],
                     slope \in [1..Cardinality(yieldWindows) -> SlopeInputs],
                     allowN \in AllowNInputs}

\* Replicate.growthyield of the well
GrowthyieldOfWell ==
    /\ well.returned = None
    /\ well' = [well EXCEPT !.returned = Some(growthyieldOfWell(well))]
    /\ UNCHANGED <<plateVars, statuses, growth, cls>>

NextYield == GrowthyieldOfWell

SpecYield == InitYield /\ [][NextYield]_vars

\* A window of the well w qualifies with n standard errors.
qualifies(w, i, n) ==
    /\ i >= w.timemaxIdx
    /\ w.mean[i + 1] > w.odAtMaxLinSlope
    /\ w.slope[i + 1] + n * w.slopeStdErr[i + 1] >= 0
    /\ w.slope[i + 1] - n * w.slopeStdErr[i + 1] < 0

\* The numbers of standard errors the search may use.
permitted(w) == {1} \cup 2..w.allowNStderrDeviations

\* The first number of standard errors with which some window qualifies.
isFirstQualifying(w, n) ==
    /\ n \in permitted(w)
    /\ \E i \in yieldWindows : qualifies(w, i, n)
    /\ \A m \in permitted(w) : m < n => ~ \E i \in yieldWindows : qualifies(w, i, m)

searched(w) == w.hasOd /\ w.hasSlopemax /\ w.timemaxIdx < YieldTimePoints - YieldWindowSize

\* C27: the yield search tests the windows with n = 1 standard error, and only when no
\* window qualifies with n = 2, 3, ... up to allowGrowthyieldSlopeNStderrAwayFromZero; it
\* stops at the first n with a qualifying window and reports that n in a warning status;
\* when no n up to the maximum gives a qualifying window the yield is undefined with a
\* failed status.
C27_YieldRelaxation ==
    (well.returned # None /\ searched(well)) =>
        /\ \A n \in permitted(well) :
               isFirstQualifying(well, n) =>
                   /\ well.returned[1].growthyield # None
                   /\ \E i \in yieldWindows :
                          /\ qualifies(well, i, n)
                          /\ well.returned[1].growthyield = Some(well.mean[i + 1])
                   /\ well.returned[1].status =
                          IF n = 1 THEN None ELSE Some(withinStderr(n))
        /\ (\A n \in permitted(well) : ~isFirstQualifying(well, n)) =>
               /\ well.returned[1].growthyield = None
               /\ well.returned[1].tgrowthyield = None
               /\ well.returned[1].status # None
               /\ severity(well.returned[1].status[1]) = SeverityFailed

\* A yield found with two standard errors where three are permitted and no window
\* qualifies with one.
C27_Witness ==
    /\ well.returned # None
    /\ searched(well)
    /\ well.allowNStderrDeviations = 3
    /\ isFirstQualifying(well, 2)
    /\ well.returned[1].growthyield # None
    /\ well.returned[1].status = Some(withinStderr(2))

\* C28: a defined well-level growth yield has a time strictly later than the time of
\* the maximal linear slope, is the largest windowed mean OD among the qualifying
\* windows, exceeds the OD at the maximal slope and is not negative.
C28_YieldPostcondition ==
    (well.returned # None /\ well.returned[1].growthyield # None) =>
        \E n \in permitted(well) :
            /\ isFirstQualifying(well, n)
            /\ \E i \in yieldWindows :
                   /\ qualifies(well, i, n)
                   /\ well.returned[1].growthyield = Some(well.mean[i + 1])
                   /\ well.returned[1].tgrowthyield # None
                   /\ well.returned[1].tgrowthyield[1] > yieldTime[well.timemaxIdx + 1]
                   /\ well.returned[1].tgrowthyield[1] = yieldTime[i + 1] + YieldWindowSize \div 2
            /\ \A j \in yieldWindows :
                   qualifies(well, j, n) => well.mean[j + 1] <= well.returned[1].growthyield[1]
            /\ well.returned[1].growthyield[1] > well.odAtMaxLinSlope
            /\ well.returned[1].growthyield[1] >= 0

\* The yield taken from the window that starts at the maximal slope, while a later
\* window that qualifies has a smaller mean and a still later one does not qualify
\* although its mean is larger.
C28_Witness ==
    /\ well.returned # None
    /\ well.timemaxIdx = 0
    /\ well.returned[1].growthyield = Some(well.mean[1])
    /\ well.returned[1].tgrowthyield = Some(yieldTime[1] + YieldWindowSize \div 2)
    /\ qualifies(well, 0, 1)
    /\ qualifies(well, 1, 1) /\ well.mean[2] < well.mean[1]
    /\ ~qualifies(well, 2, 1) /\ well.mean[3] > well.mean[1]

====
